---- MODULE Spec2Model ----
(***************************************************************************)
(* A model of nikoget: the DownloadContext task (common.py), the transfer  *)
(* routine of the NetEase resolver (plugins/netease_cloud_music.py), the   *)
(* part of download_audio that observes the task (__main__.py) and the     *)
(* plugin registry (utils.py).                                             *)
(***************************************************************************)
EXTENDS Integers, Sequences, FiniteSets, TLC

\* ------------------------------------------------------------------ bounds
\* run() calls made on the context besides the one of download_audio
MaxExtraRuns == 1
\* threads that read the run_status / error properties concurrently
MaxReaders == 1
\* chunks one response body yields at most
MaxChunks == 1
\* entries of the plugin directory
MaxFiles == 3
\* urls given to download()
MaxUrls == 2
\* the longest list resolve_url returns
MaxDescriptors == 2

\* common.py line 9: the chunk size the routines ask iter_content for
STREAM_CHUNK_SIZE == 2048

\* ------------------------------------------------------------- constants
None == "None"
NoHeader == <<"<absent>">>

\* TaskStatus, common.py 58-71
TaskStatus == {"pending", "running", "finished", "error_occurred"}

\* the threads that call run(); the first one is download_audio
Callers == 0..MaxExtraRuns
Audio == CHOOSE c \in Callers : \A d \in Callers : c <= d
Readers == 1..MaxReaders

Free == <<"free", 0>>
\* the lock held by the thread of download_audio
Observer == <<"observer", 0>>

\* values of the Content-Length header: absent, digit strings, a non-number
ContentLengthHeaders == {NoHeader, <<"0">>, <<"1", "2">>, <<"x">>}
\* values of the Content-Type header, as the list of their ';'-separated parts
ContentTypeHeaders ==
    {NoHeader, <<"audio/mpeg", "charset=UTF-8">>, <<"audio/mp4">>, <<"text/html">>}

\* len(chunk) for the chunks of iter_content (full chunks)
ChunkLengths == {STREAM_CHUNK_SIZE}

Digits == {"0", "1", "2", "3", "4", "5", "6", "7", "8", "9"}

DigitVal(c) ==
    CASE c = "0" -> 0 [] c = "1" -> 1 [] c = "2" -> 2 [] c = "3" -> 3
      [] c = "4" -> 4 [] c = "5" -> 5 [] c = "6" -> 6 [] c = "7" -> 7
      [] c = "8" -> 8 [] c = "9" -> 9

IsNumber(s) == Len(s) > 0 /\ \A i \in 1..Len(s) : s[i] \in Digits

RECURSIVE ParseInt(_)
\* int(s) for a string of decimal digits
ParseInt(s) ==
    IF Len(s) = 0 THEN 0
    ELSE 10 * ParseInt(SubSeq(s, 1, Len(s) - 1)) + DigitVal(s[Len(s)])

\* header.split(';')[0]
SplitFirst(h) == h[1]

\* MIME_EXTENSIONS lookup of download_audio, '' when the mime is not a key
MimeExtension(m) ==
    CASE m \in {"audio/mp3", "audio/x-mpeg-3", "audio/mpeg", "audio/mpeg3"} -> ".mp3"
      [] m = "audio/mp4" -> ".m4a"
      [] m = "video/mp4" -> ".mp4"
      [] m = "video/x-msvideo" -> ".avi"
      [] m = "video/quicktime" -> ".mov"
      [] m = "video/x-flv" -> ".flv"
      [] OTHER -> ""

VARIABLES
    routine,          \* the transfer routine given to DownloadContext()
    run_status,       \* DownloadContext._run_status
    error,            \* DownloadContext._error
    mime,             \* DownloadContext.mime
    headers_ready,    \* DownloadContext.headers_ready
    total_size,       \* DownloadContext.total_size
    downloaded_size,  \* DownloadContext.downloaded_size
    lock,             \* DownloadContext.lock: Free or its holder
    cpc,              \* per caller of run(): its position in run()
    cret,             \* per caller of run(): what run() returned
    wpc,              \* per worker thread: its position in bootstrap()
    wresult,          \* per worker thread: the local 'result'
    wchunks,          \* per worker thread: chunks read from the response
    wlocal,           \* per worker thread: the chunk in hand and the value
                      \* of downloaded_size read for line 300
    rpc,              \* per reader: its position in the property getter
    rtemp,            \* per reader: the local 'temp'
    opc,              \* download_audio: its position after audio_ctx.run()
    seen_mime,        \* download_audio: the mime it chose the extension from
    extension_name,   \* download_audio: the extension it chose
    otemp,            \* download_audio: temp of the run_status getter it is in
    fd_closed,        \* the sink given to the routine: closed or not
    written,          \* the sink given to the routine: bytes written to it
    kpc,              \* the wait for the cover: its position after cover_ctx.run()
    cover,            \* the local 'cover': NoCover, or Bytes(len(out.getvalue()))
    cover_mime,       \* the local 'cover_mime'
    cover_ctx,        \* the local 'cover_ctx': the context of the cover, its
                      \* worker, the call of run() on it, and its sink 'out'
    dpc,              \* download(): its position in the loop over args.url
    nurls,            \* download(): len(args.url)
    uidx,             \* download(): the position of the loop in args.url
    args_all,         \* download(): args.all
    select_audio,     \* download(): whether 'audio' is in args.select
    descriptors,      \* download(): what is left of the list resolve_url
                      \* returned, for the loop of line 264
    outcomes,         \* download(): how the urls handled so far ended
    pargs,            \* patch_audio: its arguments and what they meet
    ppc,              \* patch_audio: its position
    pcover,           \* patch_audio: the local 'cover'
    pmem,             \* patch_audio: the tags of the mutagen object in memory
    pdisk,            \* patch_audio: the tags written to the file at audio_path
    psaves,           \* patch_audio: the calls of save() that have returned
    pwarned,          \* patch_audio: the warnings logged
    presult,          \* patch_audio: running, returned, or the exception raised
    descr,            \* deliver_download, deliver_patch: the local 'descriptor'
    fargs,            \* a function that is called alone: its arguments
    fret,             \* a function that is called alone: what it returned or raised
    nloader,          \* the PluginLoader under construction: the first or the second
    snapshot,         \* list(first loader), taken when its constructor returned
    listing,          \* PluginLoader._plugin_files: os.listdir(directory)
    lpc,              \* PluginLoader.__init__: in its loop, or returned
    lidx,             \* PluginLoader.__init__: the next entry of the listing
    plugins,          \* PluginLoader._plugins
    broken,           \* PluginLoader._broken
    mpc,              \* match_url: not called, iterating, or ended
    url,              \* match_url: its url argument
    midx,             \* match_url: the position of its iterator
    mresult           \* match_url: what it returned or raised

ctx == <<run_status, error, mime, headers_ready, total_size, downloaded_size>>
procs == <<cpc, cret, wpc, wresult, wchunks, wlocal, rpc, rtemp>>
observer == <<opc, seen_mime, extension_name, otemp, fd_closed>>
cover_obs == <<kpc, cover, cover_mime, cover_ctx>>
batch == <<dpc, nurls, uidx, args_all, select_audio, descriptors, outcomes>>
patching == <<pargs, ppc, pcover, pmem, pdisk, psaves, pwarned, presult>>
calls == <<fargs, fret>>
loaders == <<nloader, snapshot>>
registry == <<listing, lpc, lidx, plugins, broken, mpc, url, midx, mresult, loaders>>
vars == <<routine, ctx, lock, procs, observer, written, cover_obs, batch, patching,
          descr, calls, registry>>
download_audio == <<routine, ctx, lock, procs, observer, written, cover_obs>>
download == <<download_audio, batch, patching, descr, calls>>

\* the urls given to match_url, and the sets of them a resolver may accept
Urls == {"a", "b"}

\* PluginLoader._broken before any failure (line 15: self._broken = None),
\* in the shape of the BrokenError that may replace it
NotBroken == [error |-> None, caused_by |-> None]

\* the exceptions that loading a file may raise (lines 22-24)
LoadErrors == {"SyntaxError", "ImportError"}

\* What a file of the plugin directory is to the loader: a name that starts
\* with '__', a module that defines 'plugin' (a resolver that accepts some urls),
\* a module that defines none, or a file whose loading raises
FileKinds ==
    {[kind |-> k, accepts |-> {}, raises |-> None] : k \in {"dunder", "module"}}
        \cup {[kind |-> "broken", accepts |-> {}, raises |-> x] : x \in LoadErrors}
        \cup {[kind |-> "plugin", accepts |-> a, raises |-> None] : a \in SUBSET Urls}

RECURSIVE SeqsUpTo(_, _)
\* the sequences over S of length at most n
SeqsUpTo(S, n) ==
    IF n = 0 THEN {<<>>}
    ELSE LET shorter == SeqsUpTo(S, n - 1)
         IN shorter \cup {Append(q, x) : q \in {t \in shorter : Len(t) = n - 1}, x \in S}

\* PluginLoader.__init__, lines 13-15, for a fresh extra_plugins list: the
\* directory is listed, nothing is loaded yet; match_url is not called yet
InitRegistry ==
    /\ listing \in SeqsUpTo(FileKinds, MaxFiles)
    /\ lpc = "loading"
    /\ lidx = 1
    /\ plugins = <<>>
    /\ broken = NotBroken
    /\ mpc = "idle"
    /\ url = None
    /\ midx = 1
    /\ mresult = None
    /\ nloader = 1
    /\ snapshot = <<>>

\* the registry of an empty directory, loaded
RegistryAtRest ==
    /\ listing = <<>>
    /\ lpc = "loaded"
    /\ lidx = 1
    /\ plugins = <<>>
    /\ broken = NotBroken
    /\ mpc = "idle"
    /\ url = None
    /\ midx = 1
    /\ mresult = None
    /\ nloader = 1
    /\ snapshot = <<>>

\* the routine holds no chunk and has read nothing for line 300
NoLocal == [chunk |-> 0, temp |-> 0]

\* DownloadContext.__init__ and the start of download_audio (the sink is open,
\* the context is created, run() is not called yet)
InitContext ==
    /\ routine \in {"ncm", "custom"}
    /\ run_status = "pending"
    /\ error = None
    /\ mime = None
    /\ headers_ready = FALSE
    /\ total_size = 0
    /\ downloaded_size = 0
    /\ lock = Free
    /\ cpc = [c \in Callers |-> "idle"]
    /\ cret = [c \in Callers |-> "unset"]
    /\ wpc = [c \in Callers |-> "unstarted"]
    /\ wresult = [c \in Callers |-> None]
    /\ wchunks = [c \in Callers |-> 0]
    /\ wlocal = [c \in Callers |-> NoLocal]
    /\ rpc = [r \in Readers |-> "idle"]
    /\ rtemp = [r \in Readers |-> None]
    /\ opc = "wait_headers"
    /\ seen_mime = None
    /\ extension_name = None
    /\ otemp = None
    /\ fd_closed = FALSE
    /\ written = 0

\* DownloadContext.__init__, lines 102-109, for the context of a cover: its
\* fields, with the call of run() on it (cpc, cret), its worker thread (wpc,
\* wresult, wchunks, wlocal) and the bytes written to its sink (out)
DownloadContext(bootstrap) ==
    [routine |-> bootstrap,
     run_status |-> "pending",
     error |-> None,
     mime |-> None,
     headers_ready |-> FALSE,
     total_size |-> 0,
     downloaded_size |-> 0,
     lock |-> Free,
     cpc |-> "idle",
     cret |-> "unset",
     wpc |-> "unstarted",
     wresult |-> None,
     wchunks |-> 0,
     wlocal |-> NoLocal,
     out |-> 0]

\* line 165: cover_ctx = None, in the shape of a context
NoCoverContext == DownloadContext("none")

\* values of the Content-Length header of the cover's response
CoverLengthHeaders == {NoHeader, <<"1", "2">>, <<"x">>}
\* values of the Content-Type header of the cover's response
CoverTypeHeaders == {NoHeader, <<"image/jpeg", "charset=UTF-8">>, <<"image/bmp">>}

\* the values of 'cover': None, or a bytes object (of which the length is kept)
NoCover == <<>>
Bytes(n) == <<n>>

\* try_compress_image, line 36: limit=2097152
CompressLimit == 2097152

\* line 200 and line 218: the mimes of the two container families
Mp3Mimes == {"audio/mp3", "audio/mpeg", "audio/mpeg3", "audio/x-mpeg-3"}
Mp4Mimes == {"audio/mp4", "video/mp4"}

\* What patch_audio is called with, and what it meets:
\*   audio_mime, cover, cover_mime  its arguments
\*   lyrics, disc     whether descriptor.lyrics, descriptor.disc_number are set
\*   compress         "off": args.no_compress_cover; "no_numpy", "no_cv2":
\*                    the module is not installed; "ok": OpenCV decodes the
\*                    cover and brings it under the limit; "incompressible":
\*                    no JPEG quality brings it under the limit;
\*                    "undecodable": OpenCV cannot decode it
\*   file_ok          whether mutagen can parse the file at audio_path
\*   fails_at         the call of save() that meets an I/O error (0: none)
PatchInputs ==
    [audio_mime : Mp3Mimes \cup Mp4Mimes
                      \cup {"video/quicktime", "application/octet-stream", None},
     cover : {NoCover, Bytes(CompressLimit)}
                 \cup {Bytes(k * STREAM_CHUNK_SIZE) : k \in 0..MaxChunks},
     cover_mime : {"image/png", "image/jpg", "image/jpeg", "image/bmp", None},
     lyrics : BOOLEAN,
     disc : BOOLEAN,
     compress : {"off", "no_numpy", "no_cv2", "ok", "incompressible", "undecodable"},
     file_ok : BOOLEAN,
     fails_at : {0, 1, 2}]

NoArgs == CHOOSE a \in PatchInputs : TRUE

\* no cover is being waited for
CoverAtRest ==
    /\ kpc = "off"
    /\ cover = NoCover
    /\ cover_mime = None
    /\ cover_ctx = NoCoverContext

\* download() is not running
BatchAtRest ==
    /\ dpc = "off"
    /\ nurls = 0
    /\ uidx = 0
    /\ args_all = FALSE
    /\ select_audio = FALSE
    /\ descriptors = <<>>
    /\ outcomes = <<>>

\* patch_audio is not running
PatchAtRest ==
    /\ pargs = NoArgs
    /\ ppc = "off"
    /\ pcover = NoCover
    /\ pmem = {}
    /\ pdisk = {}
    /\ psaves = 0
    /\ pwarned = {}
    /\ presult = "off"

\* no descriptor is being delivered
NoDescriptor == [kind |-> "none", origin |-> "none", cls |-> "none"]
DescrAtRest == descr = NoDescriptor

\* no function is called alone
NoCall == [f |-> "none"]
CallsAtRest ==
    /\ fargs = NoCall
    /\ fret = NoCall

Init ==
    /\ InitContext /\ CoverAtRest /\ BatchAtRest /\ PatchAtRest /\ RegistryAtRest
    /\ DescrAtRest /\ CallsAtRest

\* ------------------------------------------------------ DownloadContext.run
\* The test of line 135, as a plausible slip would write it (a task that is not
\* running may be started)
MayStart_NotRunning(st) == st # "running"

\* line 135: run() starts a worker only if the status it reads is pending
MayStart(st) == st = "pending"

\* run(), line 135: the caller reads _run_status (without the lock) and either
\* goes on to create the thread or returns None (lines 139-140)
RunCheck(c) ==
    /\ cpc[c] = "idle"
    /\ IF MayStart(run_status)
       THEN /\ cpc' = [cpc EXCEPT ![c] = "L136"]
            /\ UNCHANGED cret
       ELSE /\ cpc' = [cpc EXCEPT ![c] = "returned"]
            /\ cret' = [cret EXCEPT ![c] = "none"]
    /\ UNCHANGED <<registry, calls, descr, patching, batch, cover_obs, written, routine, ctx, lock, wpc, wresult, wchunks, wlocal, rpc, rtemp, observer>>

\* run(), lines 136-137: the thread is created and started; from now on the
\* worker runs, whether or not run() has returned
RunStart(c) ==
    /\ cpc[c] = "L136"
    /\ cpc' = [cpc EXCEPT ![c] = "L138"]
    /\ wpc' = [wpc EXCEPT ![c] = "L120"]
    /\ UNCHANGED <<registry, calls, descr, patching, batch, cover_obs, written, routine, ctx, lock, cret, wresult, wchunks, wlocal, rpc, rtemp, observer>>

\* run(), line 138: run() returns the thread it started
RunReturn(c) ==
    /\ cpc[c] = "L138"
    /\ cpc' = [cpc EXCEPT ![c] = "returned"]
    /\ cret' = [cret EXCEPT ![c] = "thread"]
    /\ UNCHANGED <<registry, calls, descr, patching, batch, cover_obs, written, routine, ctx, lock, wpc, wresult, wchunks, wlocal, rpc, rtemp, observer>>

\* ------------------------------------------- DownloadContext.run.bootstrap
\* line 120, executed by the worker thread, without the lock
WorkerSetRunning(w) ==
    /\ wpc[w] = "L120"
    /\ run_status' = "running"
    /\ wpc' = [wpc EXCEPT ![w] = "L123"]
    /\ UNCHANGED <<registry, calls, descr, patching, batch, cover_obs, written, routine, error, mime, headers_ready, total_size, downloaded_size,
                   lock, cpc, cret, wresult, wchunks, wlocal, rpc, rtemp, observer>>

\* The routine ends: 'result' is what it returned, or what it raised (lines
\* 122-125); the worker is then at the test of line 127
RoutineEnds(w, value) ==
    /\ wpc' = [wpc EXCEPT ![w] = "L127"]
    /\ wresult' = [wresult EXCEPT ![w] = value]
    /\ wchunks' = [wchunks EXCEPT ![w] = 0]
    /\ wlocal' = [wlocal EXCEPT ![w] = NoLocal]

\* lines 122-125 for a routine that is not the resolver's: it touches no field
\* of the context and returns None, returns an error or raises one; what it
\* raises is caught by line 124 if it is an Exception, and ends the worker
\* thread inside line 123 if it is not (SystemExit, KeyboardInterrupt)
CustomRoutine(w) ==
    /\ wpc[w] = "L123"
    /\ routine = "custom"
    /\ \/ \E value \in {None, "ReturnedError", "RaisedError"} : RoutineEnds(w, value)
       \/ /\ wpc' = [wpc EXCEPT ![w] = "killed"]
          /\ UNCHANGED <<wresult, wchunks, wlocal>>
    /\ UNCHANGED <<registry, calls, descr, patching, batch, cover_obs, written, routine, ctx, lock, cpc, cret, rpc, rtemp, observer>>

\* NcmAudio.download, line 292: requests.get answers
\* with a response, or raises
NcmGet(w) ==
    /\ wpc[w] = "L123"
    /\ routine = "ncm"
    /\ \/ wpc' = [wpc EXCEPT ![w] = "L293"] /\ UNCHANGED <<wresult, wchunks, wlocal>>
       \/ RoutineEnds(w, "ConnectionError")
    /\ UNCHANGED <<registry, calls, descr, patching, batch, cover_obs, written, routine, ctx, lock, cpc, cret, rpc, rtemp, observer>>

\* line 293 as it would read if the routine announced the headers as soon as it
\* knew the size, before the mime is stored
NcmSetTotalSize_Announce(w) ==
    /\ wpc[w] = "L293"
    /\ \E h \in ContentLengthHeaders :
          IF h = NoHeader
          THEN RoutineEnds(w, "KeyError") /\ UNCHANGED <<total_size, headers_ready>>
          ELSE IF ~IsNumber(h)
          THEN RoutineEnds(w, "ValueError") /\ UNCHANGED <<total_size, headers_ready>>
          ELSE /\ total_size' = ParseInt(h)
               /\ headers_ready' = TRUE
               /\ wpc' = [wpc EXCEPT ![w] = "L294"]
               /\ UNCHANGED <<wresult, wchunks, wlocal>>
    /\ UNCHANGED <<registry, calls, descr, patching, batch, cover_obs, written, routine, run_status, error, mime, downloaded_size,
                   lock, cpc, cret, rpc, rtemp, observer>>

\* line 293: ctx.total_size = int(req.headers['Content-Length']); a
\* missing header raises KeyError, a value that is no number ValueError
NcmSetTotalSize(w) ==
    /\ wpc[w] = "L293"
    /\ \E h \in ContentLengthHeaders :
          IF h = NoHeader
          THEN RoutineEnds(w, "KeyError") /\ UNCHANGED total_size
          ELSE IF ~IsNumber(h)
          THEN RoutineEnds(w, "ValueError") /\ UNCHANGED total_size
          ELSE /\ total_size' = ParseInt(h)
               /\ wpc' = [wpc EXCEPT ![w] = "L294"]
               /\ UNCHANGED <<wresult, wchunks, wlocal>>
    /\ UNCHANGED <<registry, calls, descr, patching, batch, cover_obs, written, routine, run_status, error, mime, headers_ready, downloaded_size,
                   lock, cpc, cret, rpc, rtemp, observer>>

\* line 294: ctx.mime = req.headers.get('Content-Type').split(';')[0];
\* without the header, get() is None and .split raises AttributeError
NcmSetMime(w) ==
    /\ wpc[w] = "L294"
    /\ \E h \in ContentTypeHeaders :
          IF h = NoHeader
          THEN RoutineEnds(w, "AttributeError") /\ UNCHANGED mime
          ELSE /\ mime' = SplitFirst(h)
               /\ wpc' = [wpc EXCEPT ![w] = "L295"]
               /\ UNCHANGED <<wresult, wchunks, wlocal>>
    /\ UNCHANGED <<registry, calls, descr, patching, batch, cover_obs, written, routine, run_status, error, headers_ready, total_size,
                   downloaded_size, lock, cpc, cret, rpc, rtemp, observer>>

\* line 295: ctx.downloaded_size = 0
NcmResetDownloaded(w) ==
    /\ wpc[w] = "L295"
    /\ downloaded_size' = 0
    /\ wpc' = [wpc EXCEPT ![w] = "L297"]
    /\ UNCHANGED <<registry, calls, descr, patching, batch, cover_obs, written, routine, run_status, error, mime, headers_ready, total_size,
                   lock, cpc, cret, wresult, wchunks, wlocal, rpc, rtemp, observer>>

\* line 297: ctx.headers_ready = True
NcmSetHeadersReady(w) ==
    /\ wpc[w] = "L297"
    /\ headers_ready' = TRUE
    /\ wpc' = [wpc EXCEPT ![w] = "L299"]
    /\ UNCHANGED <<registry, calls, descr, patching, batch, cover_obs, written, routine, run_status, error, mime, total_size, downloaded_size,
                   lock, cpc, cret, wresult, wchunks, wlocal, rpc, rtemp, observer>>

\* line 299: iter_content yields one more chunk
NcmChunk(w) ==
    /\ wpc[w] = "L299"
    /\ wchunks[w] < MaxChunks
    /\ \E n \in ChunkLengths :
          wlocal' = [wlocal EXCEPT ![w] = [chunk |-> n, temp |-> 0]]
    /\ wpc' = [wpc EXCEPT ![w] = "L300"]
    /\ UNCHANGED <<registry, calls, descr, patching, batch, cover_obs, written, routine, ctx,
                   lock, cpc, cret, wresult, wchunks, rpc, rtemp, observer>>

\* line 300, ctx.downloaded_size += len(chunk): the field is read, without
\* the lock
NcmReadDownloaded(w) ==
    /\ wpc[w] = "L300"
    /\ wlocal' = [wlocal EXCEPT ![w].temp = downloaded_size]
    /\ wpc' = [wpc EXCEPT ![w] = "L300_store"]
    /\ UNCHANGED <<registry, calls, descr, patching, batch, cover_obs, written, routine, ctx,
                   lock, cpc, cret, wresult, wchunks, rpc, rtemp, observer>>

\* line 300: the sum of what was read and the length of the chunk is stored
NcmStoreDownloaded(w) ==
    /\ wpc[w] = "L300_store"
    /\ downloaded_size' = wlocal[w].temp + wlocal[w].chunk
    /\ wpc' = [wpc EXCEPT ![w] = "L301"]
    /\ UNCHANGED <<registry, calls, descr, patching, batch, cover_obs, written, routine, run_status, error, mime, headers_ready, total_size,
                   lock, cpc, cret, wresult, wchunks, wlocal, rpc, rtemp, observer>>

\* line 301, output.write(chunk): the chunk goes to the sink; writing to a
\* sink that was closed raises ValueError
NcmWrite(w) ==
    /\ wpc[w] = "L301"
    /\ IF fd_closed
       THEN /\ RoutineEnds(w, "ValueError")
            /\ UNCHANGED written
       ELSE /\ wchunks' = [wchunks EXCEPT ![w] = @ + 1]
            /\ wlocal' = [wlocal EXCEPT ![w] = NoLocal]
            /\ written' = written + wlocal[w].chunk
            /\ wpc' = [wpc EXCEPT ![w] = "L299"]
            /\ UNCHANGED wresult
    /\ UNCHANGED <<registry, calls, descr, patching, batch, cover_obs, routine, ctx,
                   lock, cpc, cret, rpc, rtemp, observer>>

\* line 299: reading the body raises (the connection breaks)
NcmStreamFails(w) ==
    /\ wpc[w] = "L299"
    /\ RoutineEnds(w, "ConnectionError")
    /\ UNCHANGED <<registry, calls, descr, patching, batch, cover_obs, written, routine, ctx, lock, cpc, cret, rpc, rtemp, observer>>

\* a routine that closes the sink it was given when the body is exhausted
NcmReturn_ClosesSink(w) ==
    /\ wpc[w] = "L299"
    /\ RoutineEnds(w, None)
    /\ fd_closed' = TRUE
    /\ UNCHANGED <<registry, calls, descr, patching, batch, cover_obs, written, routine, ctx, lock, cpc, cret, rpc, rtemp,
                   opc, seen_mime, extension_name, otemp>>

\* lines 299, 303: the body is exhausted, req.close(), the routine returns None
NcmReturn(w) ==
    /\ wpc[w] = "L299"
    /\ RoutineEnds(w, None)
    /\ UNCHANGED <<registry, calls, descr, patching, batch, cover_obs, written, routine, ctx, lock, cpc, cret, rpc, rtemp, observer>>

\* lines 127, 132-133: result is None, the status becomes finished (no lock)
WorkerFinish(w) ==
    /\ wpc[w] = "L127"
    /\ wresult[w] = None
    /\ run_status' = "finished"
    /\ wpc' = [wpc EXCEPT ![w] = "done"]
    /\ UNCHANGED <<registry, calls, descr, patching, batch, cover_obs, written, routine, error, mime, headers_ready, total_size, downloaded_size,
                   lock, cpc, cret, wresult, wchunks, wlocal, rpc, rtemp, observer>>

\* lines 127-128: result is not None, the worker takes the lock
WorkerAcquire(w) ==
    /\ wpc[w] = "L127"
    /\ wresult[w] # None
    /\ lock = Free
    /\ lock' = <<"worker", w>>
    /\ wpc' = [wpc EXCEPT ![w] = "L129"]
    /\ UNCHANGED <<registry, calls, descr, patching, batch, cover_obs, written, routine, ctx, cpc, cret, wresult, wchunks, wlocal, rpc, rtemp, observer>>

\* line 129
WorkerSetError(w) ==
    /\ wpc[w] = "L129"
    /\ run_status' = "error_occurred"
    /\ wpc' = [wpc EXCEPT ![w] = "L130"]
    /\ UNCHANGED <<registry, calls, descr, patching, batch, cover_obs, written, routine, error, mime, headers_ready, total_size, downloaded_size,
                   lock, cpc, cret, wresult, wchunks, wlocal, rpc, rtemp, observer>>

\* line 130
WorkerStoreError(w) ==
    /\ wpc[w] = "L130"
    /\ error' = wresult[w]
    /\ wpc' = [wpc EXCEPT ![w] = "L131"]
    /\ UNCHANGED <<registry, calls, descr, patching, batch, cover_obs, written, routine, run_status, mime, headers_ready, total_size,
                   downloaded_size, lock, cpc, cret, wresult, wchunks, wlocal, rpc, rtemp,
                   observer>>

\* line 131; bootstrap() returns and the thread ends, its locals with it
WorkerRelease(w) ==
    /\ wpc[w] = "L131"
    /\ lock' = Free
    /\ wpc' = [wpc EXCEPT ![w] = "done"]
    /\ wresult' = [wresult EXCEPT ![w] = None]
    /\ UNCHANGED <<registry, calls, descr, patching, batch, cover_obs, written, routine, ctx, cpc, cret, wchunks, wlocal, rpc, rtemp, observer>>

\* ------------------------------------- the run_status and error properties
\* lines 144-145 / 151-152: the reader takes the lock and copies the field
ReadAcquire(r) ==
    /\ rpc[r] = "idle"
    /\ lock = Free
    /\ lock' = <<"reader", r>>
    /\ \/ rpc' = [rpc EXCEPT ![r] = "run_status"] /\ rtemp' = [rtemp EXCEPT ![r] = run_status]
       \/ rpc' = [rpc EXCEPT ![r] = "error"] /\ rtemp' = [rtemp EXCEPT ![r] = error]
    /\ UNCHANGED <<registry, calls, descr, patching, batch, cover_obs, written, routine, ctx, cpc, cret, wpc, wresult, wchunks, wlocal, observer>>

\* lines 146-147 / 153-154: the reader releases the lock and returns temp; the
\* getter's frame is gone
ReadRelease(r) ==
    /\ rpc[r] # "idle"
    /\ lock' = Free
    /\ rpc' = [rpc EXCEPT ![r] = "idle"]
    /\ rtemp' = [rtemp EXCEPT ![r] = None]
    /\ UNCHANGED <<registry, calls, descr, patching, batch, cover_obs, written, routine, ctx, cpc, cret, wpc, wresult, wchunks, wlocal, observer>>

\* ------------------------------------------------------------ download_audio
\* lines 130-131: one test of the loop that waits for the headers
PollHeaders ==
    /\ cpc[Audio] = "returned"
    /\ opc = "wait_headers"
    /\ opc' = IF headers_ready = FALSE THEN "wait_headers" ELSE "pick_ext"
    /\ UNCHANGED <<registry, calls, descr, patching, batch, cover_obs, written, routine, ctx, lock, procs, seen_mime, extension_name, otemp, fd_closed>>

\* lines 133-137: the extension is chosen from the mime
PickExtension ==
    /\ opc = "pick_ext"
    /\ seen_mime' = mime
    /\ extension_name' = MimeExtension(mime)
    /\ UNCHANGED otemp
    /\ opc' = "wait_status"
    /\ UNCHANGED <<registry, calls, descr, patching, batch, cover_obs, written, routine, ctx, lock, procs, fd_closed>>

\* line 142, the test of the loop that shows the progress: download_audio
\* enters the run_status getter (common.py 144-145), takes the lock and reads
\* the field into temp
PollStatus ==
    /\ opc = "wait_status"
    /\ lock = Free
    /\ lock' = Observer
    /\ otemp' = run_status
    /\ opc' = "L146"
    /\ UNCHANGED <<registry, calls, descr, patching, batch, cover_obs, written, routine, ctx, procs, seen_mime, extension_name, fd_closed>>

\* the test of line 142 as it would read if the loop were left after one pass,
\* whatever the status
PollStatusTest_Once ==
    /\ opc = "L146"
    /\ lock' = Free
    /\ otemp' = None
    /\ opc' = "close"
    /\ UNCHANGED <<registry, calls, descr, patching, batch, cover_obs, written, routine, ctx, procs, seen_mime, extension_name, fd_closed>>

\* common.py 146-147 and line 142: the getter releases the lock and returns
\* temp; the loop goes on while it is running
PollStatusTest ==
    /\ opc = "L146"
    /\ lock' = Free
    /\ otemp' = None
    /\ opc' = IF otemp = "running" THEN "L143" ELSE "close"
    /\ UNCHANGED <<registry, calls, descr, patching, batch, cover_obs, written, routine, ctx, procs, seen_mime, extension_name, fd_closed>>

\* lines 143-145: total_size and downloaded_size are read for the progress
\* bar, nothing of the context is changed
ShowProgress ==
    /\ opc = "L143"
    /\ opc' = "wait_status"
    /\ UNCHANGED <<registry, calls, descr, patching, batch, cover_obs, written, routine, ctx, lock, procs, seen_mime, extension_name, otemp, fd_closed>>

\* line 147: audio_fd.close()
CloseSink ==
    /\ opc = "close"
    /\ fd_closed' = TRUE
    /\ opc' = "closed"
    /\ UNCHANGED <<registry, calls, descr, patching, batch, cover_obs, written, routine, ctx, lock, procs, seen_mime, extension_name, otemp>>

\* ------------------------------------------------- the context of the cover
\* lines 163-165 and 170-172: the descriptor offers no download_cover, or
\* --no-cover is given: out and cover_ctx are None, and so are cover and
\* cover_mime
SkipCover ==
    /\ opc = "closed"
    /\ cover' = NoCover
    /\ cover_mime' = None
    /\ opc' = "patch"
    /\ UNCHANGED <<registry, calls, descr, patching, batch, written, routine, ctx, lock, procs,
                   kpc, cover_ctx, seen_mime, extension_name, otemp, fd_closed>>

\* lines 148-156: the progress bar is closed, out is a new BytesIO and
\* descriptor.download_cover(out) returns the context of the cover, with the
\* resolver's routine or another; run() is not called yet
StartCover ==
    /\ opc = "closed"
    /\ \E r \in {"ncm", "custom"} : cover_ctx' = DownloadContext(r)
    /\ kpc' = "wait"
    /\ opc' = "cover"
    /\ UNCHANGED <<registry, calls, descr, patching, batch, written, routine, ctx, lock, procs,
                   cover, cover_mime, seen_mime, extension_name, otemp, fd_closed>>

\* a step of the cover's context, of the call of run() on it or of its worker
\* thread: nothing else is touched
CoverContextStep(next) ==
    /\ cover_ctx' = next
    /\ UNCHANGED <<registry, calls, descr, patching, batch, written, routine, ctx, lock, procs,
                   observer, kpc, cover, cover_mime>>

\* line 157 (299), cover_ctx.run(), common.py line 135
CoverRunCheck ==
    /\ kpc = "wait"
    /\ cover_ctx.cpc = "idle"
    /\ CoverContextStep(IF MayStart(cover_ctx.run_status)
                        THEN [cover_ctx EXCEPT !.cpc = "L136"]
                        ELSE [cover_ctx EXCEPT !.cpc = "returned", !.cret = "none"])

\* common.py lines 136-137: the worker of the cover is started
CoverRunStart ==
    /\ cover_ctx.cpc = "L136"
    /\ CoverContextStep([cover_ctx EXCEPT !.cpc = "L138", !.wpc = "L120"])

\* common.py line 138: cover_ctx.run() returns
CoverRunReturn ==
    /\ cover_ctx.cpc = "L138"
    /\ CoverContextStep([cover_ctx EXCEPT !.cpc = "returned", !.cret = "thread"])

\* common.py line 120, by the worker of the cover
CoverSetRunning ==
    /\ cover_ctx.wpc = "L120"
    /\ CoverContextStep([cover_ctx EXCEPT !.run_status = "running", !.wpc = "L123"])

\* the routine of the cover ends: common.py lines 122-125
CoverRoutineEnds(value) ==
    CoverContextStep([cover_ctx EXCEPT !.wpc = "L127", !.wresult = value,
                                       !.wchunks = 0, !.wlocal = NoLocal])

\* common.py lines 122-125 for a download_cover routine that is not the
\* resolver's: as CustomRoutine
CoverCustomRoutine ==
    /\ cover_ctx.wpc = "L123"
    /\ cover_ctx.routine = "custom"
    /\ \/ \E value \in {None, "ReturnedError", "RaisedError"} : CoverRoutineEnds(value)
       \/ CoverContextStep([cover_ctx EXCEPT !.wpc = "killed"])

\* NcmAudio.download_cover, line 270: requests.get answers, or raises
CoverGet ==
    /\ cover_ctx.wpc = "L123"
    /\ cover_ctx.routine = "ncm"
    /\ \/ CoverContextStep([cover_ctx EXCEPT !.wpc = "L271"])
       \/ CoverRoutineEnds("ConnectionError")

\* line 271: ctx.total_size = int(req.headers['Content-Length'])
CoverSetTotalSize ==
    /\ cover_ctx.wpc = "L271"
    /\ \E h \in CoverLengthHeaders :
          IF h = NoHeader THEN CoverRoutineEnds("KeyError")
          ELSE IF ~IsNumber(h) THEN CoverRoutineEnds("ValueError")
          ELSE CoverContextStep([cover_ctx EXCEPT !.total_size = ParseInt(h),
                                                  !.wpc = "L272"])

\* line 272: ctx.mime = req.headers.get('Content-Type').split(';')[0]
CoverSetMime ==
    /\ cover_ctx.wpc = "L272"
    /\ \E h \in CoverTypeHeaders :
          IF h = NoHeader THEN CoverRoutineEnds("AttributeError")
          ELSE CoverContextStep([cover_ctx EXCEPT !.mime = SplitFirst(h), !.wpc = "L273"])

\* line 273: ctx.downloaded_size = 0
CoverResetDownloaded ==
    /\ cover_ctx.wpc = "L273"
    /\ CoverContextStep([cover_ctx EXCEPT !.downloaded_size = 0, !.wpc = "L275"])

\* line 275: ctx.headers_ready = True
CoverSetHeadersReady ==
    /\ cover_ctx.wpc = "L275"
    /\ CoverContextStep([cover_ctx EXCEPT !.headers_ready = TRUE, !.wpc = "L277"])

\* line 277: iter_content yields one more chunk
CoverChunk ==
    /\ cover_ctx.wpc = "L277"
    /\ cover_ctx.wchunks < MaxChunks
    /\ \E n \in ChunkLengths :
          CoverContextStep([cover_ctx EXCEPT !.wlocal = [chunk |-> n, temp |-> 0],
                                             !.wpc = "L278"])

\* line 278, ctx.downloaded_size += len(chunk): the field is read
CoverReadDownloaded ==
    /\ cover_ctx.wpc = "L278"
    /\ CoverContextStep([cover_ctx EXCEPT !.wlocal.temp = cover_ctx.downloaded_size,
                                          !.wpc = "L278_store"])

\* line 278: the sum is stored
CoverStoreDownloaded ==
    /\ cover_ctx.wpc = "L278_store"
    /\ CoverContextStep([cover_ctx EXCEPT
                             !.downloaded_size = cover_ctx.wlocal.temp + cover_ctx.wlocal.chunk,
                             !.wpc = "L279"])

\* line 279, output.write(chunk): the chunk goes to out, which nothing closes
CoverWrite ==
    /\ cover_ctx.wpc = "L279"
    /\ CoverContextStep([cover_ctx EXCEPT !.out = @ + cover_ctx.wlocal.chunk,
                                          !.wchunks = @ + 1,
                                          !.wlocal = NoLocal,
                                          !.wpc = "L277"])

\* line 277: reading the body raises
CoverStreamFails ==
    /\ cover_ctx.wpc = "L277"
    /\ CoverRoutineEnds("ConnectionError")

\* lines 277, 281: the body is exhausted, req.close(), the routine returns None
CoverReturn ==
    /\ cover_ctx.wpc = "L277"
    /\ CoverRoutineEnds(None)

\* common.py lines 127, 132-133
CoverFinish ==
    /\ cover_ctx.wpc = "L127"
    /\ cover_ctx.wresult = None
    /\ CoverContextStep([cover_ctx EXCEPT !.run_status = "finished", !.wpc = "done"])

\* common.py lines 127-128: the worker takes the lock of the cover's context
CoverAcquire ==
    /\ cover_ctx.wpc = "L127"
    /\ cover_ctx.wresult # None
    /\ cover_ctx.lock = Free
    /\ CoverContextStep([cover_ctx EXCEPT !.lock = <<"worker", Audio>>, !.wpc = "L129"])

\* common.py line 129
CoverSetError ==
    /\ cover_ctx.wpc = "L129"
    /\ CoverContextStep([cover_ctx EXCEPT !.run_status = "error_occurred", !.wpc = "L130"])

\* common.py line 130
CoverStoreError ==
    /\ cover_ctx.wpc = "L130"
    /\ CoverContextStep([cover_ctx EXCEPT !.error = cover_ctx.wresult, !.wpc = "L131"])

\* common.py line 131; the thread ends, its locals with it
CoverRelease ==
    /\ cover_ctx.wpc = "L131"
    /\ CoverContextStep([cover_ctx EXCEPT !.lock = Free, !.wresult = None, !.wpc = "done"])

\* download_audio line 158 (patch.deliver_patch line 300), the test of the
\* loop that follows cover_ctx.run(): the thread enters the run_status getter
\* (common.py 144-145), takes the lock of the cover's context and reads the
\* field into temp
PollCover ==
    /\ kpc = "wait"
    /\ cover_ctx.cpc = "returned"
    /\ cover_ctx.lock = Free
    /\ cover_ctx' = [cover_ctx EXCEPT !.lock = Observer]
    /\ otemp' = cover_ctx.run_status
    /\ kpc' = "L146"
    /\ UNCHANGED <<registry, calls, descr, patching, batch, written, routine, ctx, lock, procs,
                   opc, seen_mime, extension_name, fd_closed, cover, cover_mime>>

\* common.py 146-147 and line 158 (300): the getter releases the lock and
\* returns temp; the loop goes on while it is running
PollCoverTest ==
    /\ kpc = "L146"
    /\ cover_ctx' = [cover_ctx EXCEPT !.lock = Free]
    /\ otemp' = None
    /\ kpc' = IF otemp = "running" THEN "L159" ELSE "read"
    /\ UNCHANGED <<registry, calls, descr, patching, batch, written, routine, ctx, lock, procs,
                   opc, seen_mime, extension_name, fd_closed, cover, cover_mime>>

\* lines 159-161 (301-303): total_size and downloaded_size of the cover's
\* context are read for the progress bar, nothing is changed
ShowCoverProgress ==
    /\ kpc = "L159"
    /\ kpc' = "wait"
    /\ UNCHANGED <<registry, calls, descr, patching, batch, written, routine, ctx, lock, procs,
                   observer, cover, cover_mime, cover_ctx>>

\* lines 162 and 167-168 (304, 306): cover = out.getvalue()
ReadCover ==
    /\ kpc = "read"
    /\ cover' = Bytes(cover_ctx.out)
    /\ kpc' = "L169"
    /\ UNCHANGED <<registry, calls, descr, patching, batch, written, routine, ctx, lock, procs,
                   observer, cover_mime, cover_ctx>>

\* line 169 (307): cover_mime = cover_ctx.mime; download_audio is then at line
\* 174, deliver_patch at line 313
ReadCoverMime ==
    /\ kpc = "L169"
    /\ cover_mime' = cover_ctx.mime
    /\ kpc' = "got"
    /\ opc' = IF opc = "cover" THEN "patch" ELSE opc
    /\ ppc' = IF ppc = "cover" THEN "L313" ELSE ppc
    /\ UNCHANGED <<registry, calls, descr, batch, written, routine, ctx, lock, procs,
                   seen_mime, extension_name, otemp, fd_closed, cover, cover_ctx,
                   pargs, pcover, pmem, pdisk, psaves, pwarned, presult>>

\* the worker thread of the cover's context
CoverWorker ==
    \/ CoverSetRunning
    \/ CoverCustomRoutine
    \/ CoverGet
    \/ CoverSetTotalSize
    \/ CoverSetMime
    \/ CoverResetDownloaded
    \/ CoverSetHeadersReady
    \/ CoverChunk
    \/ CoverReadDownloaded
    \/ CoverStoreDownloaded
    \/ CoverWrite
    \/ CoverStreamFails
    \/ CoverReturn
    \/ CoverFinish
    \/ CoverAcquire
    \/ CoverSetError
    \/ CoverStoreError
    \/ CoverRelease

\* lines 157-169 (299-307): cover_ctx.run(), the loop that shows the progress
\* of the cover, and the reads of out and of the mime
CoverWait ==
    \/ CoverRunCheck \/ CoverRunStart \/ CoverRunReturn
    \/ CoverWorker
    \/ PollCover \/ PollCoverTest \/ ShowCoverProgress
    \/ ReadCover \/ ReadCoverMime

\* -------------------------------------------------------------- patch_audio
\* try_compress_image, lines 36-71: the image comes back as it is if it is
\* under the limit, or, with a warning, if numpy or cv2 cannot be imported;
\* otherwise it is decoded and encoded again as JPEG at falling quality until
\* it is under the limit ("ok"), or until the quality is under 5, when the last
\* encoding is returned although it is not under the limit ("incompressible");
\* an image that cv2.imdecode cannot decode (it returns None) makes
\* cv2.imencode raise
try_compress_image(image_data, env) ==
    IF image_data[1] < CompressLimit
    THEN [raised |-> FALSE, data |-> image_data, warned |-> {}]
    ELSE IF env = "no_numpy"
    THEN [raised |-> FALSE, data |-> image_data,
          warned |-> {"Cannot import numpy. Skipping compression"}]
    ELSE IF env = "no_cv2"
    THEN [raised |-> FALSE, data |-> image_data,
          warned |-> {"Cannot import opencv. Skipping compression"}]
    ELSE IF env = "undecodable"
    THEN [raised |-> TRUE, data |-> image_data, warned |-> {}]
    ELSE IF env = "incompressible"
    THEN [raised |-> FALSE, data |-> Bytes(CompressLimit), warned |-> {}]
    ELSE [raised |-> FALSE, data |-> Bytes(STREAM_CHUNK_SIZE), warned |-> {}]

\* an exception leaves patch_audio
PatchRaises(exc) ==
    /\ ppc' = "ended"
    /\ presult' = exc

\* lines 195-196
Compress ==
    /\ ppc = "L195"
    /\ IF pcover # NoCover /\ pargs.compress # "off"
       THEN LET r == try_compress_image(pcover, pargs.compress) IN
            /\ pwarned' = pwarned \cup r.warned
            /\ IF r.raised
               THEN PatchRaises("cv2.error") /\ UNCHANGED pcover
               ELSE pcover' = r.data /\ ppc' = "L200" /\ UNCHANGED presult
       ELSE ppc' = "L200" /\ UNCHANGED <<pcover, presult, pwarned>>
    /\ UNCHANGED <<registry, calls, descr, download_audio, batch, pargs, pmem, pdisk, psaves>>

\* lines 200, 218, 238-240: the family of audio_mime is chosen; for a mime of
\* neither family a warning is logged and patch_audio returns
Dispatch ==
    /\ ppc = "L200"
    /\ IF pargs.audio_mime \in Mp3Mimes
       THEN ppc' = "L204" /\ UNCHANGED <<pwarned, presult>>
       ELSE IF pargs.audio_mime \in Mp4Mimes
       THEN ppc' = "L222" /\ UNCHANGED <<pwarned, presult>>
       ELSE /\ pwarned' = pwarned \cup {"Unsupported audio format"}
            /\ ppc' = "ended"
            /\ presult' = "returned"
    /\ UNCHANGED <<registry, calls, descr, download_audio, batch, pargs, pcover, pmem, pdisk, psaves>>

\* save() of a mutagen object: the tags in memory are written to the file, or
\* an I/O error leaves the file as it was
Save(tags, next) ==
    IF pargs.fails_at = psaves + 1
    THEN PatchRaises("OSError") /\ UNCHANGED <<pdisk, psaves>>
    ELSE /\ pdisk' = tags
         /\ psaves' = psaves + 1
         /\ ppc' = next
         /\ presult' = IF next = "ended" THEN "returned" ELSE presult

\* lines 204-205 without the save of line 206
Mp3Base_NoSave ==
    /\ ppc = "L204"
    /\ IF ~pargs.file_ok
       THEN PatchRaises("HeaderNotFoundError") /\ UNCHANGED <<pmem, pdisk, psaves>>
       ELSE /\ pmem' = pdisk \cup {"base"}
            /\ ppc' = "L208"
            /\ UNCHANGED <<pdisk, psaves, presult>>
    /\ UNCHANGED <<registry, calls, descr, download_audio, batch, pargs, pcover, pwarned>>

\* lines 204-206: EasyMP3(audio_path), update with the descriptor's tags, save
Mp3Base ==
    /\ ppc = "L204"
    /\ IF ~pargs.file_ok
       THEN PatchRaises("HeaderNotFoundError") /\ UNCHANGED <<pmem, pdisk, psaves>>
       ELSE /\ pmem' = pdisk \cup {"base"}
            /\ Save(pmem', "L208")
    /\ UNCHANGED <<registry, calls, descr, download_audio, batch, pargs, pcover, pwarned>>

\* lines 208-216: the file is opened again as ID3, the lyrics and the cover
\* are added if there are any, save
Mp3Addendum ==
    /\ ppc = "L208"
    /\ pmem' = pdisk \cup (IF pargs.lyrics THEN {"lyrics"} ELSE {})
                     \cup (IF pcover # NoCover THEN {"cover"} ELSE {})
    /\ Save(pmem', "ended")
    /\ UNCHANGED <<registry, calls, descr, download_audio, batch, pargs, pcover, pwarned>>

\* lines 222-223: MP4(audio_path), update with descriptor.as_mp4_dict(), which
\* holds the lyrics; as_mp4_dict reads the undefined name temp_disk when
\* disc_number is set (common.py 217-218)
Mp4Update ==
    /\ ppc = "L222"
    /\ IF ~pargs.file_ok
       THEN PatchRaises("MP4StreamInfoError") /\ UNCHANGED pmem
       ELSE IF pargs.disc
       THEN PatchRaises("NameError") /\ UNCHANGED pmem
       ELSE /\ pmem' = pdisk \cup {"base"} \cup (IF pargs.lyrics THEN {"lyrics"} ELSE {})
            /\ ppc' = "L225"
            /\ UNCHANGED presult
    /\ UNCHANGED <<registry, calls, descr, download_audio, batch, pargs, pcover, pdisk, psaves, pwarned>>

\* lines 226-232: the MP4Cover format of a cover mime, None if it has none
CoverFormat(m) ==
    IF m = "image/png" THEN "FORMAT_PNG"
    ELSE IF m \in {"image/jpg", "image/jpeg"} THEN "FORMAT_JPEG"
    ELSE None

\* lines 225-234: if there is a cover its format is chosen, a warning is
\* logged if the mime has none, and mp4['covr'] is set in either case
Mp4Cover ==
    /\ ppc = "L225"
    /\ IF pcover # NoCover
       THEN /\ pwarned' = IF CoverFormat(pargs.cover_mime) = None
                          THEN pwarned \cup {"cover format not supported by MP4"}
                          ELSE pwarned
            /\ pmem' = pmem \cup {"cover"}
       ELSE UNCHANGED <<pwarned, pmem>>
    /\ ppc' = "L236"
    /\ UNCHANGED <<registry, calls, descr, download_audio, batch, pargs, pcover, pdisk, psaves, presult>>

\* line 236: the one save of the MP4 branch. A cover whose imageformat is None
\* is not something mutagen defines: rendering it raises before anything is
\* written, or the atom is written with the format as it is
Mp4Save ==
    /\ ppc = "L236"
    /\ \/ Save(pmem, "ended")
       \/ /\ "cover" \in pmem
          /\ CoverFormat(pargs.cover_mime) = None
          /\ PatchRaises("struct.error")
          /\ UNCHANGED <<pdisk, psaves>>
    /\ UNCHANGED <<registry, calls, descr, download_audio, batch, pargs, pcover, pmem, pwarned>>

\* what patch_audio meets besides its arguments
PatchMeets ==
    [lyrics : BOOLEAN,
     disc : BOOLEAN,
     compress : {"off", "no_numpy", "no_cv2", "ok", "incompressible", "undecodable"},
     file_ok : BOOLEAN,
     fails_at : {0, 1, 2}]

\* Of what patch_audio can meet, what it gets to when it is called with this
\* mime and this cover: compression is tried only on a cover at the limit or
\* above, the file is opened only for a mime of one of the two families,
\* disc_number is read only for the MP4 family, a second save is made only for
\* the MP3 family, and nothing more is read of a file that cannot be parsed.
\* What is not got to is left at its first value
MeetsOf(m, c) ==
    {e \in PatchMeets :
        /\ (c = NoCover \/ c[1] < CompressLimit) => e.compress = "off"
        /\ m \notin Mp3Mimes \cup Mp4Mimes => e.file_ok
        /\ m \notin Mp4Mimes => ~e.disc
        /\ m \in Mp4Mimes => e.fails_at < 2
        /\ (~e.file_ok \/ m \notin Mp3Mimes \cup Mp4Mimes) => ~e.lyrics /\ ~e.disc /\ e.fails_at = 0}

\* patch_audio, lines 187-240, one step at a time
patch_audio ==
    \/ Compress
    \/ Dispatch
    \/ Mp3Base
    \/ Mp3Addendum
    \/ Mp4Update
    \/ Mp4Cover
    \/ Mp4Save

\* ------------------------------------------- download_audio, lines 174-185
\* lines 174-183: the lyrics file is written if it is asked for and there are
\* lyrics (open() may raise, out of download_audio); then patch_audio is
\* called on the temporary file, a file that holds no tag yet, with
\* audio_ctx.mime as it is read now, cover and cover_mime
PatchAudio ==
    /\ opc = "patch"
    /\ \/ /\ opc' = "raised"
          /\ UNCHANGED patching
       \/ /\ \E e \in MeetsOf(mime, cover) :
                pargs' = [audio_mime |-> mime,
                          cover |-> cover,
                          cover_mime |-> cover_mime,
                          lyrics |-> e.lyrics,
                          disc |-> e.disc,
                          compress |-> e.compress,
                          file_ok |-> e.file_ok,
                          fails_at |-> e.fails_at]
          /\ pcover' = cover
          /\ pmem' = {}
          /\ pdisk' = {}
          /\ psaves' = 0
          /\ pwarned' = {}
          /\ presult' = "running"
          /\ ppc' = "L195"
          /\ opc' = "patching"
    /\ UNCHANGED <<registry, calls, descr, batch, cover_obs, written, routine, ctx, lock, procs,
                   seen_mime, extension_name, otemp, fd_closed>>

\* line 178: patch_audio has returned and download_audio goes on to line 185,
\* or it has raised, out of download_audio; its locals are gone
PatchAudioReturns ==
    /\ opc = "patching"
    /\ ppc = "ended"
    /\ opc' = IF presult = "returned" THEN "rename" ELSE "raised"
    /\ ppc' = "off"
    /\ pargs' = NoArgs
    /\ pcover' = NoCover
    /\ pmem' = {}
    /\ UNCHANGED <<registry, calls, descr, batch, cover_obs, written, routine, ctx, lock, procs,
                   seen_mime, extension_name, otemp, fd_closed, pdisk, psaves, pwarned, presult>>

\* line 185: os.rename(audio_tmpfile_path, audio_file_path). The temporary
\* file gets its final name, or os.rename raises (the final path is a
\* directory that is not empty: IsADirectoryError), out of download_audio
Rename ==
    /\ opc = "rename"
    /\ opc' \in {"renamed", "raised"}
    /\ UNCHANGED <<registry, calls, descr, patching, batch, cover_obs, written, routine, ctx, lock, procs,
                   seen_mime, extension_name, otemp, fd_closed>>

\* ------------------------------------------------------------ specifications
Worker(w) ==
    \/ WorkerSetRunning(w)
    \/ CustomRoutine(w)
    \/ NcmGet(w)
    \/ NcmSetTotalSize(w)
    \/ NcmSetMime(w)
    \/ NcmResetDownloaded(w)
    \/ NcmSetHeadersReady(w)
    \/ NcmChunk(w)
    \/ NcmReadDownloaded(w)
    \/ NcmStoreDownloaded(w)
    \/ NcmWrite(w)
    \/ NcmStreamFails(w)
    \/ NcmReturn(w)
    \/ WorkerFinish(w)
    \/ WorkerAcquire(w)
    \/ WorkerSetError(w)
    \/ WorkerStoreError(w)
    \/ WorkerRelease(w)

Reader(r) == ReadAcquire(r) \/ ReadRelease(r)

DownloadAudio ==
    \/ PollHeaders \/ PickExtension \/ PollStatus \/ PollStatusTest \/ ShowProgress
    \/ CloseSink
    \/ SkipCover \/ StartCover \/ CoverWait
    \/ PatchAudio \/ patch_audio \/ PatchAudioReturns \/ Rename

\* The context as an object: any thread may call run() and read the properties
Next ==
    \/ \E c \in Callers : RunCheck(c) \/ RunStart(c) \/ RunReturn(c) \/ Worker(c)
    \/ \E r \in Readers : Reader(r)

Spec == Init /\ [][Next]_vars

\* The context as download_audio uses it: it alone holds the context and calls
\* run() once (line 127)
NextAudio ==
    \/ RunCheck(Audio) \/ RunStart(Audio) \/ RunReturn(Audio) \/ Worker(Audio)
    \/ \E r \in Readers : Reader(r)
    \/ DownloadAudio

AudioSpec == Init /\ [][NextAudio]_vars

\* ---------------------------------------------------------------- download
\* the classes of thin descriptors: NcmThinAudio (an album, a playlist), and
\* a subclass of ThinAudioDescriptor whose to_full is the body the base class
\* gives it
ThinClasses == {"NcmThinAudio", "ThinAudioDescriptor"}

\* an instance of a concrete subclass of AudioDescriptor
FullAudio == [kind |-> "full", origin |-> "resolve_url", cls |-> "AudioDescriptor"]

\* what resolve_url returns: full descriptors or thin ones. kind is what the
\* isinstance tests of deliver_download and deliver_patch see, cls the class
ResolvedDescriptors ==
    {FullAudio}
        \cup {[kind |-> "thin", origin |-> "resolve_url", cls |-> c] : c \in ThinClasses}

\* to_full() of a thin descriptor. NcmThinAudio.to_full (plugin line 198)
\* calls NcmAudio.from_id, whose first statement is NcmAudio() (line 205):
\* NcmAudio does not define easymp3_extra, an abstract method of
\* AudioDescriptor, so the call raises TypeError. The body of
\* ThinAudioDescriptor.to_full (common.py 171-175) is 'pass': it returns None
to_full(d) ==
    IF d.cls = "NcmThinAudio"
    THEN [raised |-> "TypeError"]
    ELSE [returned |-> [kind |-> "none", origin |-> "to_full", cls |-> "NoneType"]]

\* the for loop of line 256 takes the next url, or ends and download() returns
NextUrl ==
    /\ uidx' = uidx + 1
    /\ dpc' = IF uidx = nurls THEN "returned" ELSE "match"

\* line 257: match_url(url, PLUGINS), outside the try: it returns a resolver,
\* returns None (line 276, the url is reported as unmatched), or raises out of
\* download() (what match_url may do is the subject of RegistrySpec)
Match ==
    /\ dpc = "match"
    /\ \/ dpc' = "resolve" /\ UNCHANGED <<uidx, outcomes>>
       \/ outcomes' = Append(outcomes, "unmatched") /\ NextUrl
       \/ dpc' = "raised" /\ UNCHANGED <<uidx, outcomes>>
    /\ UNCHANGED <<registry, calls, descr, patching, download_audio, nurls, args_all, select_audio, descriptors>>

\* lines 261-268 and 272-274: target.resolve_url(url) raises, which is caught
\* and reported; or returns a list, which is delivered item by item if it has
\* one item or --all is given; otherwise an error is logged and exit(1)
\* leaves download() (SystemExit is no Exception)
Resolve ==
    /\ dpc = "resolve"
    /\ \/ outcomes' = Append(outcomes, "reported") /\ NextUrl /\ UNCHANGED descriptors
       \/ \E ds \in SeqsUpTo(ResolvedDescriptors, MaxDescriptors) :
             IF args_all \/ Len(ds) = 1
             THEN /\ dpc' = "L264"
                  /\ descriptors' = ds
                  /\ UNCHANGED <<uidx, outcomes>>
             ELSE /\ dpc' = "exited"
                  /\ UNCHANGED <<uidx, outcomes, descriptors>>
    /\ UNCHANGED <<registry, calls, descr, patching, download_audio, nurls, args_all, select_audio>>

\* line 264, the loop over the list: the next descriptor is handed to
\* deliver_download, or the list is exhausted and line 270 logs 'Done'
NextDescriptor ==
    /\ dpc = "L264"
    /\ IF descriptors = <<>>
       THEN /\ outcomes' = Append(outcomes, "done")
            /\ NextUrl
            /\ UNCHANGED <<descr, descriptors>>
       ELSE /\ descr' = Head(descriptors)
            /\ descriptors' = Tail(descriptors)
            /\ dpc' = "deliver"
            /\ UNCHANGED <<uidx, outcomes>>
    /\ UNCHANGED <<registry, calls, patching, download_audio, nurls, args_all, select_audio>>

\* DownloadContext.__init__ for a new context, and the locals of a new call of
\* download_audio: no cover yet, patch_audio not called yet
FreshContext(r) ==
    /\ routine' = r
    /\ run_status' = "pending"
    /\ error' = None
    /\ mime' = None
    /\ headers_ready' = FALSE
    /\ total_size' = 0
    /\ downloaded_size' = 0
    /\ lock' = Free
    /\ cpc' = [c \in Callers |-> "idle"]
    /\ cret' = [c \in Callers |-> "unset"]
    /\ wpc' = [c \in Callers |-> "unstarted"]
    /\ wresult' = [c \in Callers |-> None]
    /\ wchunks' = [c \in Callers |-> 0]
    /\ wlocal' = [c \in Callers |-> NoLocal]
    /\ rpc' = [x \in Readers |-> "idle"]
    /\ rtemp' = [x \in Readers |-> None]
    /\ opc' = "wait_headers"
    /\ seen_mime' = None
    /\ extension_name' = None
    /\ otemp' = None
    /\ fd_closed' = FALSE
    /\ written' = 0
    /\ cover' = NoCover
    /\ cover_mime' = None
    /\ cover_ctx' = NoCoverContext
    /\ kpc' = "off"
    /\ pargs' = NoArgs
    /\ ppc' = "off"
    /\ pcover' = NoCover
    /\ pmem' = {}
    /\ pdisk' = {}
    /\ psaves' = 0
    /\ pwarned' = {}
    /\ presult' = "off"

\* lines 272-274: an exception is caught and reported; what is left of the
\* list is dropped and the loop over the urls goes on
Reported ==
    /\ outcomes' = Append(outcomes, "reported")
    /\ NextUrl
    /\ descr' = NoDescriptor
    /\ descriptors' = <<>>

\* deliver_download, lines 248-254: to_full() is called on a thin descriptor
\* and what it returns is handed to download_audio as it is; a full
\* descriptor is handed to download_audio. When to_full raises, lines 272-274
\* catch and report it
DeliverDownload ==
    /\ dpc = "deliver"
    /\ IF descr.kind = "thin"
       THEN LET r == to_full(descr) IN
            IF "raised" \in DOMAIN r
            THEN Reported
            ELSE /\ descr' = r.returned
                 /\ dpc' = "L117"
                 /\ UNCHANGED <<uidx, outcomes, descriptors>>
       ELSE /\ dpc' = "L117"
            /\ UNCHANGED <<descr, uidx, outcomes, descriptors>>
    /\ UNCHANGED <<registry, calls, patching, download_audio, nurls, args_all, select_audio>>

\* download_audio, lines 117-126 (and 174-177 without 'audio' in
\* args.select). Line 117 reads descriptor.name, which None does not have;
\* fix_path, or open() of line 123 or of line 175 on a path that cannot be
\* opened, may raise too: lines 272-274 catch and report it. With 'audio' in
\* args.select download_audio opens the temporary file and asks the
\* descriptor for the context; without it the guards of lines 121 and 177
\* leave only the lyrics file to write, and download_audio returns to the
\* loop of line 264
BeginDownloadAudio ==
    /\ dpc = "L117"
    /\ \/ /\ Reported
          /\ UNCHANGED <<download_audio, patching>>
       \/ /\ descr.kind = "full"
          /\ select_audio
          /\ \E r \in {"ncm", "custom"} : FreshContext(r)
          /\ dpc' = "audio"
          /\ UNCHANGED <<descr, uidx, outcomes, descriptors>>
       \/ /\ descr.kind = "full"
          /\ ~select_audio
          /\ descr' = NoDescriptor
          /\ dpc' = "L264"
          /\ UNCHANGED <<download_audio, patching, uidx, outcomes, descriptors>>
    /\ UNCHANGED <<registry, calls, nurls, args_all, select_audio>>

\* line 127: audio_ctx.run()
CallRun ==
    /\ dpc = "audio"
    /\ RunCheck(Audio)

\* download_audio returns (line 185) and the loop of line 264 goes on; or it
\* raised, which lines 272-274 catch and report: what is left of the list is
\* dropped and the loop over the urls goes on
EndDownloadAudio ==
    /\ dpc = "audio"
    /\ opc \in {"renamed", "raised"}
    /\ IF opc = "renamed"
       THEN /\ dpc' = "L264"
            /\ UNCHANGED <<uidx, outcomes, descriptors>>
       ELSE /\ outcomes' = Append(outcomes, "reported")
            /\ NextUrl
            /\ descriptors' = <<>>
    /\ FreshContext("ncm")
    /\ descr' = NoDescriptor
    /\ UNCHANGED <<registry, calls, nurls, args_all, select_audio>>

\* download(args) is called with one url or more; PLUGINS was built at import
DownloadInit ==
    /\ InitContext
    /\ routine = "ncm"
    /\ CoverAtRest
    /\ PatchAtRest
    /\ RegistryAtRest
    /\ DescrAtRest
    /\ CallsAtRest
    /\ dpc = "match"
    /\ nurls \in 1..MaxUrls
    /\ uidx = 1
    /\ args_all \in BOOLEAN
    /\ select_audio \in BOOLEAN
    /\ descriptors = <<>>
    /\ outcomes = <<>>

NextDownload ==
    \/ Match
    \/ Resolve
    \/ NextDescriptor
    \/ DeliverDownload
    \/ BeginDownloadAudio
    \/ CallRun \/ RunStart(Audio) \/ RunReturn(Audio) \/ Worker(Audio)
    \/ DownloadAudio
    \/ EndDownloadAudio

DownloadSpec == DownloadInit /\ [][NextDownload]_vars

\* ------------------------------------------------------------ deliver_patch
\* the extensions of the file given to patch
Extensions == {".mp3", ".m4a", ".mp4", ".mov", ".txt", ""}

\* get_mime_by_ext, lines 73-85: the first key of MIME_EXTENSIONS whose
\* extension is ext, None without one
get_mime_by_ext(ext) ==
    CASE ext = ".mp3" -> "audio/mp3"
      [] ext = ".m4a" -> "audio/mp4"
      [] ext = ".mp4" -> "video/mp4"
      [] ext = ".avi" -> "video/x-msvideo"
      [] ext = ".mov" -> "video/quicktime"
      [] ext = ".flv" -> "video/x-flv"
      [] OTHER -> None

\* patch.deliver_patch, lines 282-286: to_full() is called on a thin
\* descriptor; when it raises, lines 343-345 catch and report it. What is
\* then held goes on only if it is an AudioDescriptor: otherwise deliver_patch
\* returns and line 340 logs 'Done'
DeliverPatch ==
    /\ ppc = "deliver"
    /\ IF descr.kind = "thin"
       THEN LET r == to_full(descr) IN
            IF "raised" \in DOMAIN r
            THEN ppc' = "reported" /\ UNCHANGED descr
            ELSE /\ descr' = r.returned
                 /\ ppc' = IF r.returned.kind = "full" THEN "L287" ELSE "done"
       ELSE ppc' = "L287" /\ UNCHANGED descr
    /\ UNCHANGED <<registry, calls, download_audio, batch, pargs, pcover, pmem, pdisk,
                   psaves, pwarned, presult>>

\* lines 286-291: the mime is taken from the extension of the file; without
\* one an error is logged and exit(1) leaves patch()
DeliverPatchMime ==
    /\ ppc = "L287"
    /\ \E ext \in Extensions :
          LET found == get_mime_by_ext(ext) IN
          IF found = None
          THEN ppc' = "exited" /\ UNCHANGED pargs
          ELSE pargs' = [pargs EXCEPT !.audio_mime = found] /\ ppc' = "L293"
    /\ UNCHANGED <<registry, calls, descr, download_audio, batch, pcover, pmem, pdisk,
                   psaves, pwarned, presult>>

\* lines 293 and 309-311: the descriptor offers no download_cover, or
\* --no-cover is given
DeliverPatchSkipCover ==
    /\ ppc = "L293"
    /\ cover' = NoCover
    /\ cover_mime' = None
    /\ ppc' = "L313"
    /\ UNCHANGED <<registry, calls, descr, batch, routine, ctx, lock, procs, observer, written,
                   kpc, cover_ctx, pargs, pcover, pmem, pdisk, psaves, pwarned, presult>>

\* lines 293-298: out is a new BytesIO and descriptor.download_cover(out)
\* returns the context of the cover; run() is not called yet
DeliverPatchStartCover ==
    /\ ppc = "L293"
    /\ \E r \in {"ncm", "custom"} : cover_ctx' = DownloadContext(r)
    /\ kpc' = "wait"
    /\ ppc' = "cover"
    /\ UNCHANGED <<registry, calls, descr, batch, routine, ctx, lock, procs, observer, written,
                   cover, cover_mime, pargs, pcover, pmem, pdisk, psaves, pwarned, presult>>

\* line 313: patch_audio(args, args.file, mime, descriptor, cover=cover,
\* cover_mime=cover_mime)
CallPatchAudio ==
    /\ ppc = "L313"
    /\ \E e \in MeetsOf(pargs.audio_mime, cover) :
          pargs' = [audio_mime |-> pargs.audio_mime,
                    cover |-> cover,
                    cover_mime |-> cover_mime,
                    lyrics |-> e.lyrics,
                    disc |-> e.disc,
                    compress |-> e.compress,
                    file_ok |-> e.file_ok,
                    fails_at |-> e.fails_at]
    /\ pcover' = cover
    /\ presult' = "running"
    /\ ppc' = "L195"
    /\ UNCHANGED <<registry, calls, descr, download_audio, batch, pmem, pdisk, psaves, pwarned>>

\* patch_audio is called on a file that holds none of the tags yet by
\* download_audio (line 178), or deliver_patch is called with what the resolver
\* returned (line 331, line 337)
PatchInit ==
    /\ InitContext
    /\ routine = "ncm"
    /\ CoverAtRest
    /\ BatchAtRest
    /\ RegistryAtRest
    /\ CallsAtRest
    /\ \/ /\ ppc = "L195"
          /\ descr = FullAudio
          /\ pargs \in PatchInputs
          /\ presult = "running"
       \/ /\ ppc = "deliver"
          /\ descr \in ResolvedDescriptors
          /\ pargs = NoArgs
          /\ presult = "off"
    /\ pcover = pargs.cover
    /\ pmem = {}
    /\ pdisk = {}
    /\ psaves = 0
    /\ pwarned = {}

NextPatch ==
    \/ DeliverPatch
    \/ DeliverPatchMime
    \/ DeliverPatchSkipCover
    \/ DeliverPatchStartCover
    \/ CoverWait
    \/ CallPatchAudio
    \/ patch_audio

PatchSpec == PatchInit /\ [][NextPatch]_vars

\* ------------------------------------------------------------ PluginLoader

\* the entry line 26 appends: the module's 'plugin' object
PluginEntry(i) == [what |-> "plugin", file |-> i]
\* the entry line 31 appends: the module itself
ModuleEntry(i) == [what |-> "module", file |-> i]

\* BrokenError(exc) without its cause
BrokenError_NoCause(exc) == [error |-> "BrokenError", caused_by |-> None]

\* common.py 18-34: BrokenError(caused_by)
BrokenError(exc) == [error |-> "BrokenError", caused_by |-> exc]

\* PluginLoader.__init__, lines 17-31: one pass of the loop over the listing
LoadFile ==
    /\ lpc = "loading"
    /\ lidx <= Len(listing)
    /\ LET f == listing[lidx] IN
         CASE f.kind = "dunder" ->
                \* lines 18-19: continue
                /\ lidx' = lidx + 1
                /\ UNCHANGED <<plugins, broken, lpc>>
           [] f.kind = "broken" ->
                \* lines 27-29: the exception is kept, the loop is left
                /\ broken' = BrokenError(f.raises)
                /\ lpc' = "loaded"
                /\ UNCHANGED <<plugins, lidx>>
           [] f.kind = "plugin" ->
                \* lines 25-26, then line 31
                /\ plugins' = Append(Append(plugins, PluginEntry(lidx)), ModuleEntry(lidx))
                /\ lidx' = lidx + 1
                /\ UNCHANGED <<broken, lpc>>
           [] f.kind = "module" ->
                \* line 25 is false, then line 31
                /\ plugins' = Append(plugins, ModuleEntry(lidx))
                /\ lidx' = lidx + 1
                /\ UNCHANGED <<broken, lpc>>
    /\ UNCHANGED <<download, loaders, listing, mpc, url, midx, mresult>>

\* line 17: the listing is exhausted, __init__ returns
LoadEnd ==
    /\ lpc = "loading"
    /\ lidx > Len(listing)
    /\ lpc' = "loaded"
    /\ UNCHANGED <<download, loaders, listing, lidx, plugins, broken, mpc, url, midx, mresult>>

\* is_broken of a loader that forgets its failure
is_broken_Never == FALSE

\* PluginLoader.is_broken, lines 38-40
is_broken == ~(broken = NotBroken)

\* match_url line 43 and PluginLoader.__iter__, lines 33-36: the for statement
\* asks the loader for an iterator, which raises _broken if the loader is broken
MatchStart(u) ==
    /\ lpc = "loaded"
    /\ mpc = "idle"
    /\ url' = u
    /\ IF is_broken
       THEN /\ mresult' = [raised |-> broken]
            /\ mpc' = "ended"
            /\ UNCHANGED midx
       ELSE /\ midx' = 1
            /\ mpc' = "iterating"
            /\ UNCHANGED mresult
    /\ UNCHANGED <<download, loaders, listing, lpc, lidx, plugins, broken>>

\* entry.match_url(url), line 44: a resolver answers with its predicate; a
\* module object has no attribute match_url
CallMatchUrl(entry, u) ==
    IF entry.what = "plugin"
    THEN [value |-> u \in listing[entry.file].accepts]
    ELSE [raised |-> "AttributeError"]

\* match_url lines 43-46: one pass of the loop, or its end
MatchStep ==
    /\ mpc = "iterating"
    /\ IF midx > Len(plugins)
       THEN \* line 46
            /\ mresult' = [returned |-> None]
            /\ mpc' = "ended"
            /\ UNCHANGED midx
       ELSE LET answer == CallMatchUrl(plugins[midx], url) IN
            IF "raised" \in DOMAIN answer
            THEN /\ mresult' = answer
                 /\ mpc' = "ended"
                 /\ UNCHANGED midx
            ELSE IF answer.value
            THEN \* line 45
                 /\ mresult' = [returned |-> plugins[midx]]
                 /\ mpc' = "ended"
                 /\ UNCHANGED midx
            ELSE /\ midx' = midx + 1
                 /\ UNCHANGED <<mresult, mpc>>
    /\ UNCHANGED <<download, loaders, listing, lpc, lidx, plugins, broken, url>>

\* the caller goes on, match_url may be called again
MatchAgain ==
    /\ mpc = "ended"
    /\ mpc' = "idle"
    /\ url' = None
    /\ mresult' = None
    /\ midx' = 1
    /\ UNCHANGED <<download, loaders, listing, lpc, lidx, plugins, broken>>

NextRegistry ==
    \/ LoadFile
    \/ LoadEnd
    \/ \E u \in Urls : MatchStart(u)
    \/ MatchStep
    \/ MatchAgain

\* The loader constructed over any directory listing, then match_url called on it
RegistryInit ==
    InitContext /\ routine = "ncm" /\ CoverAtRest /\ BatchAtRest /\ PatchAtRest
        /\ DescrAtRest /\ CallsAtRest /\ InitRegistry

RegistrySpec == RegistryInit /\ [][NextRegistry]_vars

\* ---------------------------------------------- loaders built one after another
\* the number of PluginLoader() calls
MaxLoaders == 2

\* self._plugins of the k-th loader built with default arguments: line 14 binds
\* it to extra_plugins, the one list object the def statement of line 12
\* created, whichever loader is being built
RegistryOf(k) == plugins

\* PluginLoader.__init__ lines 12-15, called again with default arguments once
\* the loader before it is constructed, whether that one is broken or not:
\* the directory is listed again (line 13), _plugins is bound to the default
\* list (line 14) and _broken of the new loader is None (line 15). listing,
\* lidx and broken are those of the loader under construction
NewLoader ==
    /\ lpc = "loaded"
    /\ mpc = "idle"
    /\ nloader < MaxLoaders
    /\ nloader' = nloader + 1
    /\ snapshot' = RegistryOf(nloader)
    /\ listing' \in SeqsUpTo(FileKinds, MaxFiles)
    /\ broken' = NotBroken
    /\ lpc' = "loading"
    /\ lidx' = 1
    /\ UNCHANGED <<download, plugins, mpc, url, midx, mresult>>

NextLoaders ==
    \/ LoadFile
    \/ LoadEnd
    \/ NewLoader

LoadersSpec == RegistryInit /\ [][NextLoaders]_vars

\* ---------------------------------------------- descriptors, called alone
\* A str is the sequence of its characters; a field that holds None holds NoneStr
NoneStr == <<"<None>">>
\* the longest artist list of a descriptor
MaxArtists == 2

\* artist names, one of them with the character the code joins on
ArtistNames == {<<"A">>, <<"A", "/", "B">>}
ArtistLists == SeqsUpTo(ArtistNames, MaxArtists)

RECURSIVE join(_, _)
\* sep.join(parts)
join(sep, parts) ==
    IF parts = <<>> THEN <<>>
    ELSE IF Len(parts) = 1 THEN parts[1]
    ELSE parts[1] \o sep \o join(sep, Tail(parts))

RECURSIVE replace(_, _, _)
\* s.replace(old, new), old one character
replace(s, old, new) ==
    IF s = <<>> THEN <<>>
    ELSE (IF Head(s) = old THEN new ELSE <<Head(s)>>) \o replace(Tail(s), old, new)

\* AudioDescriptor.artist_str / ThinAudioDescriptor.artist_str
artist_str(self) == join(<<"/">>, self.artist)

\* AudioDescriptor.album_artist_str
album_artist_str(self) == join(<<"/">>, self.album_artist)

\* `value is list`: the identity of a value with the type object list, false for
\* every str, every None and every list instance
IsTheListType(value) == FALSE

\* _insert_if_sth, lines 11-16
insert_if_sth(target_dict, key, value) ==
    IF ~(value = NoneStr \/ (IsTheListType(value) /\ Len(value) = 0))
    THEN IF IsTheListType(value)
         THEN (key :> value) @@ target_dict
         ELSE (key :> <<value>>) @@ target_dict
    ELSE target_dict

\* what a subclass's easymp3_extra() returns: None, or a dict of its own keys
EasyMp3Extras == {"None", "netease_id"}
easymp3_extra(self) ==
    IF self.extra = "None" THEN <<>> ELSE ("netease_id" :> <<self.ncm_id>>)

\* AudioDescriptor.as_easymp3_dict, lines 190-203
as_easymp3_dict(self) ==
    LET d0 == [title |-> <<self.title>>,
               album |-> <<self.album>>,
               artist |-> <<artist_str(self)>>,
               tracknumber |-> <<self.track_number>>]
        d1 == insert_if_sth(d0, "albumartist", album_artist_str(self))
        d2 == insert_if_sth(d1, "discnumber", self.disc_number)
        d3 == insert_if_sth(d2, "comment", self.comment)
        d4 == insert_if_sth(d3, "date", self.date)
        extra == easymp3_extra(self)
    IN IF self.extra # "None" THEN extra @@ d4 ELSE d4

\* full descriptors as a resolver fills them in
FullDescriptors ==
    [title : {<<"T">>},
     artist : ArtistLists,
     album : {<<"A", "l", "b">>},
     album_artist : {<<>>, <<(<<"A">>)>>},
     disc_number : {NoneStr, <<>>, <<"1">>},
     date : {NoneStr, <<"2", "0", "2", "3">>},
     track_number : {<<"0", "3">>},
     comment : {NoneStr, <<"c">>},
     extra : EasyMp3Extras,
     ncm_id : {<<"7">>}]

\* ThinAudioDescriptor.name, lines 166-168, and AudioDescriptor.name, lines
\* 238-240: the same expression in both classes
name(self) ==
    replace(artist_str(self), "/", <<",", " ">>) \o <<" ", "-", " ">> \o self.title

\* thin and full descriptors, as far as name reads them
NamedDescriptors ==
    [kind : {"thin", "full"}, title : {<<"T">>, <<>>}, artist : ArtistLists]

\* ------------------------------------------------- NcmPlugin.resolve_url
\* A URL path is the sequence of its pieces: "/" or a run of other characters
MaxSegments == 3
PathWords == {"m", "#", "song", "album", "playlist", "1"}
\* the empty path, and the paths of up to MaxSegments segments, each "/" and
\* then a word or nothing
RECURSIVE PathsOf(_)
PathsOf(n) ==
    IF n = 0 THEN {<<>>}
    ELSE LET shorter == PathsOf(n - 1)
         IN shorter \cup {q \o <<"/">> \o w :
                             q \in {t \in shorter :
                                       Len(SelectSeq(t, LAMBDA x : x = "/")) = n - 1},
                             w \in {<<>>} \cup {<<x>> : x \in PathWords}}
NcmHosts == {"music.163.com", "y.music.163.com"}
\* what the site answers to the page request of _get_album / _get_playlist: a
\* page whose state lists songs, a page whose state lacks the entry, a page
\* without state, or no answer
Pages == {"songs", "no_entry", "no_state", "unreachable"}
ResolveInputs ==
    [f : {"resolve_url"},
     netloc : NcmHosts \cup {"example.com"},
     path : PathsOf(MaxSegments),
     query : {"", "id=1"},
     page : Pages]

\* NcmPlugin.match_url, lines 141-143
ncm_match_url(u) == u.netloc \in NcmHosts

RECURSIVE split(_, _)
\* s.split(sep): the pieces between the separators, one more than separators
split(s, sep) ==
    IF \A i \in 1..Len(s) : s[i] # sep THEN <<s>>
    ELSE LET k == CHOOSE i \in 1..Len(s) :
                    s[i] = sep /\ \A j \in 1..(i - 1) : s[j] # sep
         IN <<SubSeq(s, 1, k - 1)>> \o split(SubSeq(s, k + 1, Len(s)), sep)

\* urllib.parse.parse_qs(query), as far as 'id' in query reads it
parse_qs(query) == IF query = "id=1" THEN {"id"} ELSE {}

Returns(v) == [returns |-> v, raises |-> "none"]
Raises(exc) == [returns |-> "nothing", raises |-> exc]

\* NcmAudio.from_id, lines 204-205: NcmAudio() is refused by ABC, the class
\* leaves the abstract easymp3_extra undefined
NcmAudio_from_id == Raises("TypeError")

\* _get_album(...)['songs'] / _get_playlist(...)['songs'] mapped to thin
\* descriptors, lines 33-109 and 166-174
thin_of_songs(page) ==
    CASE page = "songs" -> Returns("descriptors")
      [] page = "no_entry" -> Raises("KeyError")
      [] page = "no_state" -> Raises("ResolveError")
      [] page = "unreachable" -> Raises("ConnectionError")

\* lines 158-179, on the path left after the deletions
resolve_path(path, query, page) ==
    IF path = <<>> THEN Raises("IndexError")
    ELSE LET with_id == Len(path) = 2 \/ (Len(path) = 1 /\ "id" \in query)
         IN CASE path[1] = <<"song">> ->
                     IF with_id THEN NcmAudio_from_id ELSE Raises("ResolveError")
              [] path[1] \in {<<"album">>, <<"playlist">>} ->
                     IF with_id THEN thin_of_songs(page) ELSE Raises("ResolveError")
              [] OTHER -> Raises("ResolveError")

\* NcmPlugin.resolve_url, lines 145-179
resolve_url(u) ==
    LET parsed_path == replace(u.path, "#", <<"%23">>)
        path == split(parsed_path, "/")
    IN IF u.netloc \in NcmHosts
       THEN IF Len(path) < 2 THEN Raises("ResolveError")
            ELSE LET p1 == Tail(path)
                     p2 == IF p1[1] \in {<<"m">>, <<"%23">>} THEN Tail(p1) ELSE p1
                 IN resolve_path(p2, parse_qs(u.query), u.page)
       ELSE Returns("None")

\* the calls made on a descriptor or a resolver alone
CallInputs ==
    [f : {"as_easymp3_dict"}, self : FullDescriptors]
        \cup [f : {"name"}, self : NamedDescriptors]
        \cup ResolveInputs

\* descriptor.as_easymp3_dict() is called, __main__.py line 203
CallAsEasymp3Dict ==
    /\ fargs.f = "as_easymp3_dict"
    /\ fret = NoCall
    /\ fret' = [f |-> fargs.f, value |-> as_easymp3_dict(fargs.self)]
    /\ UNCHANGED <<routine, ctx, lock, procs, observer, written, cover_obs, batch,
                   patching, descr, fargs, registry>>

\* descriptor.name is read, __main__.py lines 117 and 137
CallName ==
    /\ fargs.f = "name"
    /\ fret = NoCall
    /\ fret' = [f |-> fargs.f, value |-> name(fargs.self)]
    /\ UNCHANGED <<routine, ctx, lock, procs, observer, written, cover_obs, batch,
                   patching, descr, fargs, registry>>

\* download(), lines 256-261: the resolver that matched the URL resolves it
CallResolveUrl ==
    /\ fargs.f = "resolve_url"
    /\ ncm_match_url(fargs)
    /\ fret = NoCall
    /\ fret' = [f |-> fargs.f, value |-> resolve_url(fargs)]
    /\ UNCHANGED <<routine, ctx, lock, procs, observer, written, cover_obs, batch,
                   patching, descr, fargs, registry>>

NextCall ==
    \/ CallAsEasymp3Dict
    \/ CallName
    \/ CallResolveUrl

\* one function is called on one input, everything else at rest
CallInit ==
    /\ InitContext /\ routine = "ncm" /\ CoverAtRest /\ BatchAtRest /\ PatchAtRest /\ RegistryAtRest
    /\ DescrAtRest
    /\ fargs \in CallInputs
    /\ fret = NoCall

CallSpec == CallInit /\ [][NextCall]_vars

\* ------------------------------------------------------------------ claims
Terminal == {"finished", "error_occurred"}

\* one step of the status along pending -> running -> finished | error_occurred
StatusStepAllowed(a, b) ==
    \/ a = b
    \/ a = "pending" /\ b = "running"
    \/ a = "running" /\ b \in Terminal

\* C1: under any number of run() calls and readers, every change of run_status
\* is a step of pending -> running -> (finished | error_occurred): never
\* backwards, never past running, never out of a terminal status
C1_StatusPath == [][StatusStepAllowed(run_status, run_status')]_vars

\* C2: whenever the task lock is free, the status is error_occurred exactly
\* when error is not None
C2_ErrorIffFailed ==
    lock = Free => (run_status = "error_occurred" <=> error # None)

\* C3: whenever the status is finished or error_occurred, headers_ready is True
C3_HeadersReadyAtTerminal == run_status \in Terminal => headers_ready = TRUE

\* C4: the step with which a worker ends leaves the status finished and error
\* None if its routine returned None, and the status error_occurred and error
\* equal to the routine's raised or returned value otherwise; no worker ends
\* on what its routine raised without leaving the status error_occurred
C4_WorkerOutcome ==
    [][\A w \in Callers :
          /\ (wpc[w] # "done" /\ wpc'[w] = "done") =>
                 IF wresult[w] = None
                 THEN run_status' = "finished" /\ error' = None
                 ELSE run_status' = "error_occurred" /\ error' = wresult[w]
          /\ (wpc[w] # "killed" /\ wpc'[w] = "killed") =>
                 run_status' = "error_occurred"]_vars

\* C5: once a call of run() that found the task pending has returned (it
\* returned the thread), the status is no longer pending
C5_RunLeavesPending ==
    (\E c \in Callers : cret[c] = "thread") => run_status # "pending"

\* C6: a call of run() that finds the status running, finished or
\* error_occurred returns None, starts no worker and leaves every field of the
\* context as it was
C6_RunNoOp ==
    [][\A c \in Callers :
          (cpc[c] = "idle" /\ cpc'[c] # "idle" /\ run_status # "pending") =>
              /\ cpc'[c] = "returned"
              /\ cret'[c] = "none"
              /\ wpc' = wpc
              /\ ctx' = ctx]_vars

\* a call of run() on a task that had already failed has returned None, and no
\* worker was started for it
C6_Witness ==
    \E c \in Callers :
        cret[c] = "none" /\ wpc[c] = "unstarted" /\ run_status = "error_occurred"

\* C7: whatever the calls of run(), at most one worker is ever started
C7_OneWorker == Cardinality({w \in Callers : wpc[w] # "unstarted"}) <= 1

\* C8: once the audio routine of the resolver has terminated and its worker has ended,
\* download_audio is not left in the loop that waits for headers_ready (no
\* statement sets headers_ready after that, so the loop would never end)
C8_HeaderWaitEnds ==
    (routine = "ncm" /\ wpc[Audio] = "done") =>
        (opc # "wait_headers" \/ headers_ready = TRUE)

\* C9: for the resolver's routines, of the audio and of the cover, once
\* headers_ready is True no step changes mime or total_size, and the mime
\* download_audio read after it saw headers_ready is the mime of the audio's
\* context ever after
C9_HeadersStable ==
    [][/\ (routine = "ncm" /\ headers_ready = TRUE) =>
              (mime' = mime /\ total_size' = total_size)
       /\ (cover_ctx.routine = "ncm" /\ cover_ctx.headers_ready = TRUE) =>
              (cover_ctx'.mime = cover_ctx.mime
                   /\ cover_ctx'.total_size = cover_ctx.total_size)
       /\ (routine = "ncm" /\ opc' \notin {"wait_headers", "pick_ext"}) =>
              seen_mime' = mime']_vars

\* download_audio chose the extension from the mime of a response and the task
\* then finished with that mime and the size of the response
C9_Witness ==
    /\ routine = "ncm"
    /\ opc = "closed"
    /\ run_status = "finished"
    /\ seen_mime = "audio/mpeg"
    /\ mime = "audio/mpeg"
    /\ extension_name = ".mp3"
    /\ total_size = 12

\* the resolvers of the registry, in the order line 26 registered them
Resolvers == SelectSeq(plugins, LAMBDA e : e.what = "plugin")

\* the first resolver of the registry whose predicate accepts u, None without one
FirstMatch(u) ==
    LET hits == SelectSeq(Resolvers, LAMBDA e : u \in listing[e.file].accepts)
    IN IF hits = <<>> THEN None ELSE Head(hits)

\* C10: on a registry that loaded without error, match_url raises nothing and
\* returns the first registered resolver whose match_url(url) is True, None
\* when no resolver accepts the url
C10_MatchFirst ==
    (mpc = "ended" /\ ~is_broken) => mresult = [returned |-> FirstMatch(url)]

\* the positions of the listing whose file raises when it is loaded
BrokenFiles == {i \in 1..Len(listing) : listing[i].kind = "broken"}

\* the positions of the listing whose file loads and defines a resolver
PluginFiles == {i \in 1..Len(listing) : listing[i].kind = "plugin"}

Registered == {plugins[k] : k \in 1..Len(plugins)}

\* C11: when the constructor has returned, every loadable resolver of the
\* listing is registered, the ones that come after a file that raised
\* included, and a file that raised is recorded
C11_LoadContinues ==
    lpc = "loaded" =>
        /\ \A i \in PluginFiles : PluginEntry(i) \in Registered
        /\ BrokenFiles # {} => is_broken

\* the first file of the listing that raises
FirstBroken == CHOOSE i \in BrokenFiles : \A j \in BrokenFiles : i <= j

\* C12: if a file raised while it was loaded, the constructor returns with a
\* BrokenError whose caused_by is the exception of that file, and every call
\* of match_url on the loader ends by raising that BrokenError
C12_Poisoned ==
    (lpc = "loaded" /\ BrokenFiles # {}) =>
        /\ broken = [error |-> "BrokenError", caused_by |-> listing[FirstBroken].raises]
        /\ mpc # "iterating"
        /\ mpc = "ended" => mresult = [raised |-> broken]

\* a resolver that accepts the url was registered, the next file raised
\* ImportError, and match_url on that url raised the BrokenError of it
C12_Witness ==
    /\ lpc = "loaded"
    /\ Len(listing) >= 2
    /\ listing[1].kind = "plugin"
    /\ listing[2].kind = "broken"
    /\ mpc = "ended"
    /\ url \in listing[1].accepts
    /\ mresult = [raised |-> [error |-> "BrokenError", caused_by |-> "ImportError"]]

\* three resolver files, the second of which raises while it is loaded
SecondOfThreeRaises ==
    /\ Len(listing) = 3
    /\ listing[1].kind = "plugin"
    /\ listing[2].kind = "broken"
    /\ listing[3].kind = "plugin"

\* C13: with three resolvers of which the second raises during load, match_url
\* returns the first for a url the first accepts, and the third for a url only
\* the third accepts
C13_MatchAroundBroken ==
    (SecondOfThreeRaises /\ mpc = "ended") =>
        /\ url \in listing[1].accepts => mresult = [returned |-> PluginEntry(1)]
        /\ (url \notin listing[1].accepts /\ url \in listing[3].accepts) =>
               mresult = [returned |-> PluginEntry(3)]

\* C13 as amended: with three resolvers of which the second raises during
\* load, match_url raises the recorded BrokenError for every url, one the
\* first accepts and one only the third accepts included
C13_MatchRaisesBroken ==
    (SecondOfThreeRaises /\ mpc = "ended") =>
        mresult = [raised |-> BrokenError(listing[2].raises)]

\* match_url was called with a url only the third resolver accepts and raised
C13_Witness ==
    /\ SecondOfThreeRaises
    /\ mpc = "ended"
    /\ url \notin listing[1].accepts
    /\ url \in listing[3].accepts
    /\ "raised" \in DOMAIN mresult

\* C14: the cover bytes and the cover mime are read only after the cover's
\* context has reached finished or error_occurred: the loop that follows
\* cover_ctx.run() has not been left while the task is pending or running
C14_CoverReadAfterTerminal ==
    kpc \in {"read", "L169", "got"} => cover_ctx.run_status \in Terminal

\* C15: download_audio goes on to the cover, to patch_audio and to the rename
\* only if the audio's context ended in finished
C15_OnlyAfterFinished ==
    opc \in {"cover", "patch", "patching", "rename", "renamed", "raised"} => run_status = "finished"

\* C17: the sink is closed by line 147 of download_audio and by nothing else:
\* no step of the context or of its routine closes it, a step of the worker
\* only appends to it
C17_OnlyCallerCloses ==
    [][/\ fd_closed' # fd_closed =>
            (opc = "close" /\ opc' = "closed" /\ fd_closed' = TRUE /\ wpc' = wpc)
       /\ wpc' # wpc => (written' >= written /\ (written' > written => ~fd_closed))
      ]_vars

\* the routine wrote the body and returned, the task finished, and the sink
\* was closed by download_audio afterwards
C17_Witness ==
    /\ wpc[Audio] = "done"
    /\ run_status = "finished"
    /\ written > 0
    /\ fd_closed = TRUE
    /\ opc = "closed"

\* the loop of line 130 can never end: the worker is gone and has not set
\* headers_ready
HeaderWaitStuck ==
    /\ dpc = "audio"
    /\ opc = "wait_headers"
    /\ wpc[Audio] \in {"done", "killed"}
    /\ headers_ready = FALSE

\* C16: a failure while a url is resolved or downloaded ends the handling of
\* that url only: once download() can handle nothing more (it returned, it
\* exited, or it waits for ever), no url that follows is left unhandled, and
\* when it returned every url has had its outcome
C16_OthersProcessed ==
    /\ (dpc \in {"returned", "exited"} \/ HeaderWaitStuck) => uidx >= nurls
    /\ dpc = "returned" => Len(outcomes) = nurls

\* patch_audio has ended on a file of the MP4 family that mutagen can parse,
\* and nothing but the cover stood in its way
Mp4RunEnded ==
    /\ ppc = "ended"
    /\ pargs.audio_mime \in Mp4Mimes
    /\ pargs.file_ok
    /\ ~pargs.disc
    /\ pargs.fails_at # 1
    /\ presult # "cv2.error"

\* C18: on a file of the MP4 family the cover is written if and only if there
\* is a cover and its mime is image/png, image/jpg or image/jpeg; for another
\* cover mime a warning is logged, patch_audio returns, and the descriptor's
\* tags are saved
C18_Mp4CoverIff ==
    Mp4RunEnded =>
        /\ ("cover" \in pdisk) <=>
               (pcover # NoCover
                    /\ pargs.cover_mime \in {"image/png", "image/jpg", "image/jpeg"})
        /\ (pcover # NoCover
                /\ pargs.cover_mime \notin {"image/png", "image/jpg", "image/jpeg"}) =>
               /\ "cover format not supported by MP4" \in pwarned
               /\ presult = "returned"
               /\ "base" \in pdisk

\* C19: with a mime of neither family patch_audio writes nothing to the file,
\* logs a warning and returns, whatever the descriptor and the cover
C19_UnknownMimeNoWrite ==
    (ppc = "ended" /\ pargs.audio_mime \notin Mp3Mimes \cup Mp4Mimes) =>
        /\ pdisk = {}
        /\ psaves = 0
        /\ "Unsupported audio format" \in pwarned
        /\ presult = "returned"

\* adding or saving the lyrics and the cover failed
AddendumFailed ==
    \/ presult = "struct.error"
    \/ /\ presult = "OSError"
       /\ pargs.audio_mime \in Mp4Mimes \/ pargs.fails_at = 2

\* C20: for either family there are two saves, the base tags first, so that
\* the base tags are on disk when the addendum fails
C20_TwoSavesEachFamily ==
    (ppc = "ended" /\ pargs.audio_mime \in Mp3Mimes \cup Mp4Mimes) =>
        /\ presult = "returned" => psaves = 2
        /\ AddendumFailed => "base" \in pdisk

\* C20 as amended: the MP3 family is written in two saves, the base tags
\* first, and they are on disk when the addendum fails; the MP4 family is
\* written in one save, and nothing is on disk when that fails
C20_TwoSavesMp3OneSaveMp4 ==
    /\ ppc = "L208" => (psaves = 1 /\ pdisk = {"base"})
    /\ (ppc = "ended" /\ pargs.audio_mime \in Mp3Mimes) =>
           /\ presult = "returned" => psaves = 2
           /\ AddendumFailed => (psaves = 1 /\ pdisk = {"base"})
    /\ (ppc = "ended" /\ pargs.audio_mime \in Mp4Mimes) =>
           /\ presult = "returned" => psaves = 1
           /\ AddendumFailed => (psaves = 0 /\ pdisk = {})

\* an MP3 file whose base tags were saved and whose second save failed
C20_Witness ==
    /\ ppc = "ended"
    /\ pargs.audio_mime \in Mp3Mimes
    /\ pargs.lyrics
    /\ pcover # NoCover
    /\ presult = "OSError"
    /\ psaves = 1
    /\ pdisk = {"base"}

\* C21: every write of _run_status and of _error is made by a thread that
\* holds the lock of the context
C21_WritesUnderLock ==
    [][(run_status' # run_status \/ error' # error) =>
           \E w \in Callers :
               wpc'[w] # wpc[w] /\ lock = <<"worker", w>> /\ lock' = lock]_vars

\* C22: a descriptor that is passed to download_audio or to patch_audio is a
\* full AudioDescriptor: while download() is in download_audio, or patch() is
\* past the conversion of deliver_patch, the descriptor held is a full one
C22_NeverThin ==
    (dpc \in {"L117", "audio"} \/ ppc \notin {"off", "deliver", "reported", "exited", "done"}) =>
        descr.kind = "full"

\* the optional keys of the generic MP3 tag set, each with the descriptor's field
OptionalField(self, key) ==
    CASE key = "albumartist" -> self.album_artist
      [] key = "discnumber" -> self.disc_number
      [] key = "comment" -> self.comment
      [] key = "date" -> self.date

\* a field is set: not None and not empty
IsSet(v) == v # NoneStr /\ v # <<>>

\* C23: the generic tag set of an MP3-family file holds title, album, the joined
\* artist string and tracknumber as the descriptor has them, and holds
\* albumartist, discnumber, comment and date only when the field is set
C23_Mp3TagSet ==
    fret # NoCall /\ fret.f = "as_easymp3_dict" =>
        LET self == fargs.self
            tags == fret.value
        IN /\ {"title", "album", "artist", "tracknumber"} \subseteq DOMAIN tags
           /\ tags["title"] = <<self.title>>
           /\ tags["album"] = <<self.album>>
           /\ tags["artist"] = <<join(<<"/">>, self.artist)>>
           /\ tags["tracknumber"] = <<self.track_number>>
           /\ \A key \in {"albumartist", "discnumber", "comment", "date"} :
                  key \in DOMAIN tags => IsSet(OptionalField(self, key))

\* the worker's routine met a response without a Content-Length header: the
\* lookup of line 293 raised KeyError
SizeNotInHeaders(w) == wresult[w] = "KeyError"

\* C24: total_size reads 0 exactly while the routine has not learned a size: a
\* routine that never sets it leaves it at 0 up to the terminal state, and a
\* routine whose response carries no size goes on with total_size 0, it does
\* not fail
C24_SizeZeroIffUnknown ==
    /\ routine = "custom" => total_size = 0
    /\ \A w \in Callers : ~SizeNotInHeaders(w)

\* C25: the name of a thin or full descriptor is its artists joined by ', ',
\* then ' - ', then the title, for the empty artist list and for artist names
\* that contain '/' as well
C25_NameJoinsArtists ==
    fret # NoCall /\ fret.f = "name" =>
        fret.value = join(<<",", " ">>, fargs.self.artist)
                         \o <<" ", "-", " ">> \o fargs.self.title

\* C26: for a URL that NcmPlugin.match_url accepts, resolve_url returns a list
\* of descriptors or raises ResolveError, whatever the shape of the path and
\* with or without an id in the query: never None, never another exception
C26_ListOrResolveError ==
    fret # NoCall /\ fret.f = "resolve_url" =>
        \/ fret.value = Returns("descriptors")
        \/ fret.value = Raises("ResolveError")

\* the worker is inside the transfer routine (NcmAudio.download, lines 286-303)
InRoutine(w) ==
    wpc[w] \in {"L123", "L293", "L294", "L295", "L297", "L299", "L300", "L300_store", "L301"}

\* C27: once download_audio has closed the audio sink the worker of the audio
\* context writes no more: the task is finished or error_occurred, the worker
\* has left the routine, and no write has met the closed sink
C27_NoWriteAfterClose ==
    fd_closed =>
        /\ run_status \in Terminal
        /\ ~InRoutine(Audio)
        /\ wresult[Audio] # "ValueError"

\* the sink is closed after a transfer that wrote a chunk and finished
C27_Witness ==
    /\ fd_closed
    /\ opc = "closed"
    /\ written > 0
    /\ run_status = "finished"
    /\ wpc[Audio] = "done"

\* C28: a loader constructed without a load failure holds one entry for each
\* plugin file that defines `plugin`, and every entry it yields is a resolver
\* (it has match_url, resolve_url, id, version)
C28_OneEntryPerPluginFile ==
    (lpc = "loaded" /\ ~is_broken) =>
        /\ Len(plugins) = Cardinality(PluginFiles)
        /\ \A k \in 1..Len(plugins) : plugins[k].what = "plugin"

\* C29: loaders built with default arguments have registries of their own:
\* building the next one leaves what the one before it yields as it was, and
\* the next one holds only what it registered itself
C29_IndependentRegistries ==
    nloader > 1 =>
        /\ RegistryOf(nloader - 1) = snapshot
        /\ RegistryOf(nloader) = SubSeq(plugins, Len(snapshot) + 1, Len(plugins))

====
